---- MODULE Spec2Model ----
(***************************************************************************)
(* Whisper interpreter core (kannanvijayan/whisper).                       *)
(*                                                                         *)
(* Spec        the heap-frame machine of vm/frame.cpp: frames, scopes and  *)
(*             the trampoline that steps the top frame.                    *)
(* SpecResolve the same machine, plus the delivery of an arbitrary         *)
(*             EvalResult to the frame waiting for a sub-evaluation.       *)
(* SpecInterp  the syntax dispatch of interp/interpreter.cpp with the      *)
(*             native handlers of interp/syntax_behaviour.cpp, run on an   *)
(*             explicit native call stack.                                 *)
(***************************************************************************)
EXTENDS Integers, Sequences, FiniteSets, TLC

\* ------------------------------------------------------------------------
\* Bounds
\* ------------------------------------------------------------------------

\* Per step, the allocation (1..MaxAllocSite) that runs out of memory; 0 = none.
MaxAllocSite == 3

\* Addresses of the slab heap; an address is never handed out twice.
MaxAddr == 4

\* ------------------------------------------------------------------------
\* Values (ValBox), functions, property descriptors
\* ------------------------------------------------------------------------

NoFunc == [native |-> FALSE, operative |-> FALSE, impl |-> "", node |-> 0, scope |-> 0]

NativeFunction(impl, isOp) ==
    [native |-> TRUE, operative |-> isOp, impl |-> impl, node |-> 0, scope |-> 0]

ScriptedFunction(defNode, scopeChain, isOp) ==
    [native |-> FALSE, operative |-> isOp, impl |-> "", node |-> defNode, scope |-> scopeChain]

Undefined == [t |-> "undef", n |-> 0, s |-> "", fn |-> NoFunc]

Integer(i) == [t |-> "int", n |-> i, s |-> "", fn |-> NoFunc]

StringVal(str) == [t |-> "str", n |-> 0, s |-> str, fn |-> NoFunc]

Object(scopeId) == [t |-> "obj", n |-> scopeId, s |-> "", fn |-> NoFunc]

ContObject(frameId) == [t |-> "cont", n |-> frameId, s |-> "", fn |-> NoFunc]

FunctionObject(func, receiver) == [t |-> "funcobj", n |-> receiver, s |-> "", fn |-> func]

isPointer(v) == v.t \in {"obj", "cont", "funcobj", "str"}

isContObject(v) == v.t = "cont"

NoDesc == [kind |-> "none", val |-> Undefined, fn |-> NoFunc, writable |-> FALSE]

MakeSlot(v, w) == [kind |-> "slot", val |-> v, fn |-> NoFunc, writable |-> w]

MakeMethod(func) == [kind |-> "method", val |-> Undefined, fn |-> func, writable |-> FALSE]

\* ------------------------------------------------------------------------
\* EvalResult, CallResult, StepResult
\* ------------------------------------------------------------------------

EvalValue(v) == [k |-> "Value", v |-> v, frame |-> 0, msg |-> "", arg |-> Undefined]

EvalVoid == [k |-> "Void", v |-> Undefined, frame |-> 0, msg |-> "", arg |-> Undefined]

EvalError == [k |-> "Error", v |-> Undefined, frame |-> 0, msg |-> "", arg |-> Undefined]

EvalExc(f, msg, arg) == [k |-> "Exc", v |-> Undefined, frame |-> f, msg |-> msg, arg |-> arg]

UndefinedValue == EvalValue(Undefined)

CallContinue(f) == [k |-> "Continue", v |-> Undefined, frame |-> f, msg |-> "", arg |-> Undefined]

StepContinue(f) == [k |-> "Continue", frame |-> f, result |-> EvalVoid]

ErrorVal == [k |-> "Error", frame |-> 0, result |-> EvalVoid]

\* ------------------------------------------------------------------------
\* Packed syntax trees.  A node is [type, kids, name, names, val]; kids are
\* node ids (0 in a var statement: binding without initializer).
\* ------------------------------------------------------------------------

Node(type, kids, name, names, val) ==
    [type |-> type, kids |-> kids, name |-> name, names |-> names, val |-> val]

Tree ==
    << \* `var x = 3; x`
       Node("File", <<2, 4>>, "", <<>>, 0),
       Node("VarStmt", <<3>>, "", <<"x">>, 0),
       Node("IntegerExpr", <<>>, "", <<>>, 3),
       Node("ExprStmt", <<5>>, "", <<>>, 0),
       Node("NameExpr", <<>>, "x", <<>>, 0),
       \* `return 7`
       Node("File", <<7>>, "", <<>>, 0),
       Node("ReturnStmt", <<8>>, "", <<>>, 0),
       Node("IntegerExpr", <<>>, "", <<>>, 7),
       \* `y`
       Node("File", <<10>>, "", <<>>, 0),
       Node("ExprStmt", <<11>>, "", <<>>, 0),
       Node("NameExpr", <<>>, "y", <<>>, 0),
       \* `var a = nonexistent()`
       Node("File", <<13>>, "", <<>>, 0),
       Node("VarStmt", <<14>>, "", <<"a">>, 0),
       Node("CallExpr", <<15>>, "", <<>>, 0),
       Node("NameExpr", <<>>, "nonexistent", <<>>, 0),
       \* `def f(x) { return x + 1 } f(41)`
       Node("File", <<17, 22>>, "", <<>>, 0),
       Node("DefStmt", <<18>>, "f", <<"x">>, 0),
       Node("ReturnStmt", <<19>>, "", <<>>, 0),
       Node("AddExpr", <<20, 21>>, "", <<>>, 0),
       Node("NameExpr", <<>>, "x", <<>>, 0),
       Node("IntegerExpr", <<>>, "", <<>>, 1),
       Node("ExprStmt", <<23>>, "", <<>>, 0),
       Node("CallExpr", <<24, 25>>, "", <<>>, 0),
       Node("NameExpr", <<>>, "f", <<>>, 0),
       Node("IntegerExpr", <<>>, "", <<>>, 41),
       \* `(1 + 2) * 10`
       Node("File", <<27>>, "", <<>>, 0),
       Node("ExprStmt", <<28>>, "", <<>>, 0),
       Node("MulExpr", <<29, 33>>, "", <<>>, 0),
       Node("ParenExpr", <<30>>, "", <<>>, 0),
       Node("AddExpr", <<31, 32>>, "", <<>>, 0),
       Node("IntegerExpr", <<>>, "", <<>>, 1),
       Node("IntegerExpr", <<>>, "", <<>>, 2),
       Node("IntegerExpr", <<>>, "", <<>>, 10),
       \* `var a, b = 2, c; const k = 5; (b)`
       Node("File", <<35, 37, 39>>, "", <<>>, 0),
       Node("VarStmt", <<0, 36, 0>>, "", <<"a", "b", "c">>, 0),
       Node("IntegerExpr", <<>>, "", <<>>, 2),
       Node("ConstStmt", <<38>>, "", <<"k">>, 0),
       Node("IntegerExpr", <<>>, "", <<>>, 5),
       Node("ExprStmt", <<40>>, "", <<>>, 0),
       Node("ParenExpr", <<41>>, "", <<>>, 0),
       Node("NameExpr", <<>>, "b", <<>>, 0),
       \* `;`
       Node("File", <<43>>, "", <<>>, 0),
       Node("EmptyStmt", <<>>, "", <<>>, 0),
       \* `def g(a, b) { a; return b }`   (defined by the embedder)
       Node("DefStmt", <<45, 47>>, "g", <<"a", "b">>, 0),
       Node("ExprStmt", <<46>>, "", <<>>, 0),
       Node("NameExpr", <<>>, "a", <<>>, 0),
       Node("ReturnStmt", <<48>>, "", <<>>, 0),
       Node("NameExpr", <<>>, "b", <<>>, 0),
       \* `g(4, 5)`
       Node("File", <<50>>, "", <<>>, 0),
       Node("ExprStmt", <<51>>, "", <<>>, 0),
       Node("CallExpr", <<52, 53, 54>>, "", <<>>, 0),
       Node("NameExpr", <<>>, "g", <<>>, 0),
       Node("IntegerExpr", <<>>, "", <<>>, 4),
       Node("IntegerExpr", <<>>, "", <<>>, 5),
       \* `g()`
       Node("File", <<56>>, "", <<>>, 0),
       Node("ExprStmt", <<57>>, "", <<>>, 0),
       Node("CallExpr", <<58>>, "", <<>>, 0),
       Node("NameExpr", <<>>, "g", <<>>, 0),
       \* `@IntegerExpr(5)`
       Node("File", <<60>>, "", <<>>, 0),
       Node("ExprStmt", <<61>>, "", <<>>, 0),
       Node("CallExpr", <<62, 63>>, "", <<>>, 0),
       Node("NameExpr", <<>>, "@IntegerExpr", <<>>, 0),
       Node("IntegerExpr", <<>>, "", <<>>, 5),
       \* `g.p`
       Node("File", <<65>>, "", <<>>, 0),
       Node("ExprStmt", <<66>>, "", <<>>, 0),
       Node("DotExpr", <<67>>, "p", <<>>, 0),
       Node("NameExpr", <<>>, "g", <<>>, 0),
       \* `def h() { return }`   (defined by the embedder)
       Node("DefStmt", <<69>>, "h", <<>>, 0),
       Node("ReturnStmt", <<>>, "", <<>>, 0),
       \* `h()`
       Node("File", <<71>>, "", <<>>, 0),
       Node("ExprStmt", <<72>>, "", <<>>, 0),
       Node("CallExpr", <<73>>, "", <<>>, 0),
       Node("NameExpr", <<>>, "h", <<>>, 0),
       \* `def k(a) { a }`   (defined by the embedder)
       Node("DefStmt", <<75>>, "k", <<"a">>, 0),
       Node("ExprStmt", <<76>>, "", <<>>, 0),
       Node("NameExpr", <<>>, "a", <<>>, 0),
       \* `k(9)`
       Node("File", <<78>>, "", <<>>, 0),
       Node("ExprStmt", <<79>>, "", <<>>, 0),
       Node("CallExpr", <<80, 81>>, "", <<>>, 0),
       Node("NameExpr", <<>>, "k", <<>>, 0),
       Node("IntegerExpr", <<>>, "", <<>>, 9),
       \* `(7)`
       Node("File", <<83>>, "", <<>>, 0),
       Node("ExprStmt", <<84>>, "", <<>>, 0),
       Node("ParenExpr", <<85>>, "", <<>>, 0),
       Node("IntegerExpr", <<>>, "", <<>>, 7),
       \* `def m(a, b) { a; b }`   (defined by the embedder)
       Node("DefStmt", <<87, 89>>, "m", <<"a", "b">>, 0),
       Node("ExprStmt", <<88>>, "", <<>>, 0),
       Node("NameExpr", <<>>, "a", <<>>, 0),
       Node("ExprStmt", <<90>>, "", <<>>, 0),
       Node("NameExpr", <<>>, "b", <<>>, 0),
       \* `m(4, 5)`
       Node("File", <<92>>, "", <<>>, 0),
       Node("ExprStmt", <<93>>, "", <<>>, 0),
       Node("CallExpr", <<94, 95, 96>>, "", <<>>, 0),
       Node("NameExpr", <<>>, "m", <<>>, 0),
       Node("IntegerExpr", <<>>, "", <<>>, 4),
       Node("IntegerExpr", <<>>, "", <<>>, 5),
       \* `@IntegerExpr(1, 2)`
       Node("File", <<98>>, "", <<>>, 0),
       Node("ExprStmt", <<99>>, "", <<>>, 0),
       Node("CallExpr", <<100, 101, 102>>, "", <<>>, 0),
       Node("NameExpr", <<>>, "@IntegerExpr", <<>>, 0),
       Node("IntegerExpr", <<>>, "", <<>>, 1),
       Node("IntegerExpr", <<>>, "", <<>>, 2),
       \* the empty file
       Node("File", <<>>, "", <<>>, 0),
       \* `var p, q`
       Node("File", <<105>>, "", <<>>, 0),
       Node("VarStmt", <<0, 0>>, "", <<"p", "q">>, 0),
       \* `k(4, 5)`
       Node("File", <<107>>, "", <<>>, 0),
       Node("ExprStmt", <<108>>, "", <<>>, 0),
       Node("CallExpr", <<109, 110, 111>>, "", <<>>, 0),
       Node("NameExpr", <<>>, "k", <<>>, 0),
       Node("IntegerExpr", <<>>, "", <<>>, 4),
       Node("IntegerExpr", <<>>, "", <<>>, 5),
       \* `def n(a) { k(9) }`   (defined by the embedder)
       Node("DefStmt", <<113>>, "n", <<"a">>, 0),
       Node("ExprStmt", <<114>>, "", <<>>, 0),
       Node("CallExpr", <<115, 116>>, "", <<>>, 0),
       Node("NameExpr", <<>>, "k", <<>>, 0),
       Node("IntegerExpr", <<>>, "", <<>>, 9),
       \* `n(1)`
       Node("File", <<118>>, "", <<>>, 0),
       Node("ExprStmt", <<119>>, "", <<>>, 0),
       Node("CallExpr", <<120, 121>>, "", <<>>, 0),
       Node("NameExpr", <<>>, "n", <<>>, 0),
       Node("IntegerExpr", <<>>, "", <<>>, 1),
       \* `@retcont.p`
       Node("File", <<123>>, "", <<>>, 0),
       Node("ExprStmt", <<124>>, "", <<>>, 0),
       Node("DotExpr", <<125>>, "p", <<>>, 0),
       Node("NameExpr", <<>>, "@retcont", <<>>, 0),
       \* `def e(a) { }`   (defined by the embedder), and what the packed
       \* tree holds after the empty block: no node of a handled type
       Node("DefStmt", <<>>, "e", <<"a">>, 0),
       Node("Invalid", <<>>, "", <<>>, 0),
       \* `e(1)`
       Node("File", <<129>>, "", <<>>, 0),
       Node("ExprStmt", <<130>>, "", <<>>, 0),
       Node("CallExpr", <<131, 132>>, "", <<>>, 0),
       Node("NameExpr", <<>>, "e", <<>>, 0),
       Node("IntegerExpr", <<>>, "", <<>>, 1),
       \* `g(y, 5)`
       Node("File", <<134>>, "", <<>>, 0),
       Node("ExprStmt", <<135>>, "", <<>>, 0),
       Node("CallExpr", <<136, 137, 138>>, "", <<>>, 0),
       Node("NameExpr", <<>>, "g", <<>>, 0),
       Node("NameExpr", <<>>, "y", <<>>, 0),
       Node("IntegerExpr", <<>>, "", <<>>, 5) >>

\* The source files an embedder hands to the interpreter.
Roots == {n \in 1..Len(Tree) : Tree[n].type = "File"}

\* Scripted functions the embedder defines on the global scope.
HostDefs == {n \in 1..Len(Tree) : Tree[n].type = "DefStmt" /\ Tree[n].name \in {"e", "g", "h", "k", "m", "n"}}

nodeType(n) == Tree[n].type

numStatements(n) == Len(Tree[n].kids)

statement(n, idx) == Tree[n].kids[idx + 1]

hasExpression(n) == Len(Tree[n].kids) = 1

expression(n) == Tree[n].kids[1]

numBindings(n) == Len(Tree[n].names)

varnameCid(n, idx) == Tree[n].names[idx + 1]

hasVarexpr(n, idx) == Tree[n].kids[idx + 1] > 0

varexpr(n, idx) == Tree[n].kids[idx + 1]

numArgs(n) == Len(Tree[n].kids) - 1

callee(n) == Tree[n].kids[1]

arg(n, idx) == Tree[n].kids[idx + 2]

numParams(n) == Len(Tree[n].names)

paramName(n, idx) == Tree[n].names[idx + 1]

nameCid(n) == Tree[n].name

subexpr(n) == Tree[n].kids[1]

target(n) == Tree[n].kids[1]

intValue(n) == Tree[n].val

\* Every property name a run can touch.
Names ==
    {Tree[n].name : n \in 1..Len(Tree)} \cup
    UNION {{Tree[n].names[i] : i \in 1..Len(Tree[n].names)} : n \in 1..Len(Tree)} \cup
    {"@" \o ty : ty \in {Tree[n].type : n \in 1..Len(Tree)}} \cup
    {"@retcont", "@Dot"}

\* interp/interpreter.cpp InterpretSyntax: node type -> handler name
\* (runtimeState()->nm_At<Type>()); a type outside the switch has no name.
HandledTypes ==
    {"File", "EmptyStmt", "ExprStmt", "ReturnStmt", "IfStmt", "DefStmt",
     "ConstStmt", "VarStmt", "LoopStmt", "CallExpr", "DotExpr", "ArrowExpr",
     "PosExpr", "NegExpr", "AddExpr", "SubExpr", "MulExpr", "DivExpr",
     "ParenExpr", "NameExpr", "IntegerExpr"}

syntaxHandlerName(n) == IF nodeType(n) \in HandledTypes THEN "@" \o nodeType(n) ELSE ""

\* ------------------------------------------------------------------------
\* The heap: frames and scope objects.  A machine state m carries the
\* frames, the scopes, the out-of-memory countdown of the current step
\* (oom = 1: the next allocation fails; 0: none fails), whether an
\* allocation of the current step has failed, and two histories of the
\* current step: the Resolve deliveries and the native invocations.
\* ------------------------------------------------------------------------

Alloc(m) ==
    [ok |-> m.oom # 1,
     m |-> [m EXCEPT !.oom = IF @ = 0 THEN 0 ELSE @ - 1, !.failed = @ \/ m.oom = 1]]

BaseFrame(kind, parent) ==
    [kind |-> kind, parent |-> parent, entryFrame |-> 0, syntaxNode |-> 0,
     no |-> 0, state |-> "", isConst |-> FALSE, callee |-> Undefined,
     operands |-> <<>>, hasOperands |-> FALSE, scope |-> 0,
     resumeFunc |-> "", result |-> UndefinedValue]

SyntaxFrame(kind, parent, entryFrame, syntaxNode) ==
    [BaseFrame(kind, parent) EXCEPT !.entryFrame = entryFrame, !.syntaxNode = syntaxNode]

\* acx.create<T>(...): a fresh frame, or failure when memory runs out.
Create(m, rec) ==
    LET a == Alloc(m)
    IN  IF a.ok
        THEN [ok |-> TRUE, id |-> Len(m.frames) + 1,
              m |-> [a.m EXCEPT !.frames = Append(@, rec)]]
        ELSE [ok |-> FALSE, id |-> 0, m |-> a.m]

TerminalFrame == BaseFrame("TerminalFrame", 0)

\* Variant: every EntryFrame hangs off the TerminalFrame.
EntryFrame_Detached(parent, syntaxNode, scope) ==
    [BaseFrame("EntryFrame", 1) EXCEPT !.syntaxNode = syntaxNode, !.scope = scope]

EntryFrame(parent, syntaxNode, scope) ==
    [BaseFrame("EntryFrame", parent) EXCEPT !.syntaxNode = syntaxNode, !.scope = scope]

EmptyDict == [nm \in Names |-> NoDesc]

ScopeObject(dict, delegate) == [dict |-> dict, delegate |-> delegate]

RECURSIVE LookupProperty(_, _, _)
LookupProperty(scopes, obj, name) ==
    IF obj = 0 THEN NoDesc
    ELSE IF scopes[obj].dict[name].kind # "none" THEN scopes[obj].dict[name]
    ELSE LookupProperty(scopes, scopes[obj].delegate, name)

DefineProperty(m, obj, name, desc) ==
    LET a == Alloc(m)
    IN  IF a.ok
        THEN [ok |-> TRUE, m |-> [a.m EXCEPT !.scopes[obj].dict[name] = desc]]
        ELSE [ok |-> FALSE, m |-> a.m]

LookupError == [k |-> "Error", v |-> Undefined]

LookupNotFound == [k |-> "NotFound", v |-> Undefined]

LookupFound(v) == [k |-> "Found", v |-> v]

\* Variant: the lookup reads the global object, whatever the receiver.
GetObjectProperty_Global(m, objVal, name) ==
    LET a == Alloc(m)
        desc == LookupProperty(m.scopes, 1, name)
    IN  IF ~a.ok THEN [m |-> a.m, r |-> LookupError]
        ELSE IF desc.kind = "none" THEN [m |-> a.m, r |-> LookupNotFound]
        ELSE IF desc.kind = "slot" THEN [m |-> a.m, r |-> LookupFound(desc.val)]
        ELSE LET b == Alloc(a.m)
             IN  IF ~b.ok THEN [m |-> b.m, r |-> LookupError]
                 ELSE [m |-> b.m, r |-> LookupFound(FunctionObject(desc.fn, 1))]

\* Property lookup on a value that must be an object; only scope objects
\* carry properties here.
GetObjectProperty(m, objVal, name) ==
    LET a == Alloc(m)
        desc == IF objVal.t = "obj" THEN LookupProperty(m.scopes, objVal.n, name) ELSE NoDesc
    IN  IF ~a.ok THEN [m |-> a.m, r |-> LookupError]
        ELSE IF desc.kind = "none" THEN [m |-> a.m, r |-> LookupNotFound]
        ELSE IF desc.kind = "slot" THEN [m |-> a.m, r |-> LookupFound(desc.val)]
        ELSE LET b == Alloc(a.m)
             IN  IF ~b.ok THEN [m |-> b.m, r |-> LookupError]
                 ELSE [m |-> b.m, r |-> LookupFound(FunctionObject(desc.fn, objVal.n))]

toEvalResult(lr, frame, name) ==
    IF lr.k = "Error" THEN EvalError
    ELSE IF lr.k = "NotFound"
    THEN EvalExc(frame, "Syntax method binding not found", StringVal(name))
    ELSE EvalValue(lr.v)

\* Exception creation allocates.
InternalException(m, frame, msg, excArg) ==
    LET a == Alloc(m)
    IN  [ok |-> a.ok, m |-> a.m, exc |-> EvalExc(frame, msg, excArg)]

RECURSIVE maybeAncestorEntryFrame(_, _)
maybeAncestorEntryFrame(frames, f) ==
    IF f = 0 THEN 0
    ELSE IF frames[f].kind = "EntryFrame" THEN f
    ELSE maybeAncestorEntryFrame(frames, frames[f].parent)

ancestorEntryFrame(frames, f) == maybeAncestorEntryFrame(frames, f)

\* ------------------------------------------------------------------------
\* Native handlers.  A native gets the machine state, the invoking frame
\* (callInfo.frame), the caller scope, the receiver and the syntax-node
\* arguments, and returns [m, cr] with cr a CallResult.
\* ------------------------------------------------------------------------

WrongArgs(m, frame, nm) ==
    [m |-> m, cr |-> EvalExc(frame, nm \o " called with wrong number of arguments.", Undefined)]

Lift_EmptyStmt(m, frame, callerScope, receiver, args) ==
    IF Len(args) # 1 THEN WrongArgs(m, frame, "@EmptyStmt")
    ELSE [m |-> m, cr |-> EvalVoid]

Lift_IntegerExpr(m, frame, callerScope, receiver, args) ==
    IF Len(args) # 1 THEN WrongArgs(m, frame, "@IntegerExpr")
    ELSE [m |-> m, cr |-> EvalValue(Integer(intValue(args[1])))]

\* Variant: a name that is not bound evaluates to undefined.
Lift_NameExpr_Undefined(m, frame, callerScope, receiver, args) ==
    IF Len(args) # 1 THEN WrongArgs(m, frame, "@NameExpr")
    ELSE LET name == nameCid(args[1])
             g == GetObjectProperty(m, Object(callerScope), name)
         IN  IF g.r.k = "Found" THEN [m |-> g.m, cr |-> EvalValue(g.r.v)]
             ELSE IF g.r.k = "NotFound" THEN [m |-> g.m, cr |-> EvalValue(Undefined)]
             ELSE [m |-> g.m, cr |-> EvalError]

Lift_NameExpr(m, frame, callerScope, receiver, args) ==
    IF Len(args) # 1 THEN WrongArgs(m, frame, "@NameExpr")
    ELSE LET name == nameCid(args[1])
             g == GetObjectProperty(m, Object(callerScope), name)
         IN  IF g.r.k = "Found" THEN [m |-> g.m, cr |-> EvalValue(g.r.v)]
             ELSE IF g.r.k = "NotFound"
             THEN [m |-> g.m, cr |-> EvalExc(frame, "Name not found", StringVal(name))]
             ELSE [m |-> g.m, cr |-> EvalError]

Lift_DefStmt(m, frame, callerScope, receiver, args) ==
    IF Len(args) # 1 THEN WrongArgs(m, frame, "@DefStmt")
    ELSE IF receiver = 0
    THEN [m |-> m, cr |-> EvalExc(frame, "Cannot define method on primitive.", Undefined)]
    ELSE LET a == Alloc(m)
             func == ScriptedFunction(args[1], callerScope, FALSE)
             d == DefineProperty(a.m, receiver, nameCid(args[1]), MakeMethod(func))
         IN  IF ~a.ok THEN [m |-> a.m, cr |-> EvalError]
             ELSE IF ~d.ok THEN [m |-> d.m, cr |-> EvalError]
             ELSE [m |-> d.m, cr |-> EvalVoid]

\* The handlers that evaluate sub-syntax hand a fresh frame back to the
\* trampoline.
ContinueWith(c) ==
    IF c.ok THEN [m |-> c.m, cr |-> CallContinue(c.id)] ELSE [m |-> c.m, cr |-> EvalError]

Syntax_File(m, frame, callerScope, receiver, args) ==
    IF Len(args) # 1 THEN WrongArgs(m, frame, "@File")
    ELSE ContinueWith(Create(m,
            SyntaxFrame("FileSyntaxFrame", frame, ancestorEntryFrame(m.frames, frame), args[1])))

Syntax_ReturnStmt(m, frame, callerScope, receiver, args) ==
    IF Len(args) # 1 THEN WrongArgs(m, frame, "@ReturnStmt")
    ELSE ContinueWith(Create(m,
            SyntaxFrame("ReturnStmtSyntaxFrame", frame, ancestorEntryFrame(m.frames, frame), args[1])))

Syntax_VarStmt(m, frame, callerScope, receiver, args) ==
    IF Len(args) # 1 THEN WrongArgs(m, frame, "@VarStmt")
    ELSE ContinueWith(Create(m,
            SyntaxFrame("VarSyntaxFrame", frame, ancestorEntryFrame(m.frames, frame), args[1])))

Syntax_ConstStmt(m, frame, callerScope, receiver, args) ==
    IF Len(args) # 1 THEN WrongArgs(m, frame, "@ConstStmt")
    ELSE ContinueWith(Create(m,
            [SyntaxFrame("VarSyntaxFrame", frame, ancestorEntryFrame(m.frames, frame), args[1])
                EXCEPT !.isConst = TRUE]))

Syntax_CallExpr(m, frame, callerScope, receiver, args) ==
    IF Len(args) # 1 THEN WrongArgs(m, frame, "@CallExpr")
    ELSE ContinueWith(Create(m,
            [SyntaxFrame("CallExprSyntaxFrame", frame, ancestorEntryFrame(m.frames, frame), args[1])
                EXCEPT !.state = "Callee"]))

Syntax_DotExpr(m, frame, callerScope, receiver, args) ==
    IF Len(args) # 1 THEN WrongArgs(m, frame, "@DotExpr")
    ELSE ContinueWith(Create(m,
            SyntaxFrame("DotExprSyntaxFrame", frame, ancestorEntryFrame(m.frames, frame), args[1])))

NativeCallResumeFrame(parent, evalScope, syntaxNode, resumeFunc) ==
    [BaseFrame("NativeCallResumeFrame", parent) EXCEPT
        !.scope = evalScope, !.syntaxNode = syntaxNode, !.resumeFunc = resumeFunc]

Syntax_ExprStmt(m, frame, callerScope, receiver, args) ==
    IF Len(args) # 1 THEN WrongArgs(m, frame, "@ExprStmt")
    ELSE ContinueWith(Create(m,
            NativeCallResumeFrame(frame, callerScope, expression(args[1]), "Resume_Forward")))

Syntax_ParenExpr(m, frame, callerScope, receiver, args) ==
    IF Len(args) # 1 THEN WrongArgs(m, frame, "@ParenExpr")
    ELSE ContinueWith(Create(m,
            NativeCallResumeFrame(frame, callerScope, subexpr(args[1]), "Resume_Forward")))

\* An operative the embedder installs in place of a default handler.
Host_Handler(m, frame, callerScope, receiver, args) ==
    [m |-> m, cr |-> EvalValue(Undefined)]

\* The resume function of the forwarding handlers: the child's result is
\* the handler's result.
Resume_Forward(m, frame, result) == [m |-> m, cr |-> result]

NativeResume(impl, m, frame, result) == Resume_Forward(m, frame, result)

NativeOperative(impl, m, frame, callerScope, receiver, args) ==
    CASE impl = "Lift_File" -> Syntax_File(m, frame, callerScope, receiver, args)
      [] impl = "Lift_EmptyStmt" -> Lift_EmptyStmt(m, frame, callerScope, receiver, args)
      [] impl = "Lift_ExprStmt" -> Syntax_ExprStmt(m, frame, callerScope, receiver, args)
      [] impl = "Lift_ReturnStmt" -> Syntax_ReturnStmt(m, frame, callerScope, receiver, args)
      [] impl = "Lift_DefStmt" -> Lift_DefStmt(m, frame, callerScope, receiver, args)
      [] impl = "Lift_VarStmt" -> Syntax_VarStmt(m, frame, callerScope, receiver, args)
      [] impl = "Lift_ConstStmt" -> Syntax_ConstStmt(m, frame, callerScope, receiver, args)
      [] impl = "Lift_ParenExpr" -> Syntax_ParenExpr(m, frame, callerScope, receiver, args)
      [] impl = "Lift_NameExpr" -> Lift_NameExpr(m, frame, callerScope, receiver, args)
      [] impl = "Lift_IntegerExpr" -> Lift_IntegerExpr(m, frame, callerScope, receiver, args)
      [] impl = "Lift_CallExpr" -> Syntax_CallExpr(m, frame, callerScope, receiver, args)
      [] impl = "Lift_DotExpr" -> Syntax_DotExpr(m, frame, callerScope, receiver, args)
      [] OTHER -> Host_Handler(m, frame, callerScope, receiver, args)

\* Record of a native invocation in the step's history.
Invoked(m, funcVal, frame, args) ==
    [m EXCEPT !.calls = Append(@, [impl |-> funcVal.fn.impl, frame |-> frame, args |-> args])]

InvokeOperativeFunction(m, frame, callerScope, funcVal, args) ==
    IF funcVal.fn.native
    THEN NativeOperative(funcVal.fn.impl, Invoked(m, funcVal, frame, args),
                         frame, callerScope, funcVal.n, args)
    ELSE [m |-> m, cr |-> EvalError]

\* InvokeOperativeValue without the isOperative check.
InvokeOperativeValue_AnyFunction(m, frame, callerScope, funcVal, args) ==
    IF funcVal.t # "funcobj"
    THEN [m |-> m, cr |-> EvalExc(frame, "Cannot call non-function", Undefined)]
    ELSE InvokeOperativeFunction(m, frame, callerScope, funcVal, args)

InvokeOperativeValue(m, frame, callerScope, funcVal, args) ==
    IF funcVal.t # "funcobj"
    THEN [m |-> m, cr |-> EvalExc(frame, "Cannot call non-function", Undefined)]
    ELSE IF ~funcVal.fn.operative
    THEN [m |-> m, cr |-> EvalExc(frame, "Function is not an operative.", funcVal)]
    ELSE InvokeOperativeFunction(m, frame, callerScope, funcVal, args)

\* ------------------------------------------------------------------------
\* Applicative invocation and the initial frame of an entry
\* ------------------------------------------------------------------------

CallScope(m, parentScope) ==
    LET a == Alloc(m)
    IN  IF a.ok
        THEN [ok |-> TRUE, id |-> Len(m.scopes) + 1,
              m |-> [a.m EXCEPT !.scopes = Append(@, ScopeObject(EmptyDict, parentScope))]]
        ELSE [ok |-> FALSE, id |-> 0, m |-> a.m]

\* Bind argument values to parameter names, i = 0 .. numParams-1.
RECURSIVE BindParams(_, _, _, _, _)
BindParams(m, funcScope, defNode, args, i) ==
    IF i = Len(args) THEN [ok |-> TRUE, m |-> m]
    ELSE LET d == DefineProperty(m, funcScope, paramName(defNode, i), MakeSlot(args[i + 1], TRUE))
         IN  IF ~d.ok THEN d ELSE BindParams(d.m, funcScope, defNode, args, i + 1)

\* Variant: the call scope is created before the arity is compared.
InvokeApplicativeFunction_ScopeFirst(m, frame, callerScope, calleeVal, args) ==
    IF calleeVal.fn.native THEN [m |-> m, cr |-> EvalError]
    ELSE LET s == CallScope(m, callerScope)
         IN  IF ~s.ok
             THEN [m |-> s.m, cr |-> EvalExc(frame, "Error creating call scope.", Undefined)]
             ELSE IF numParams(calleeVal.fn.node) # Len(args)
             THEN [m |-> s.m, cr |-> EvalExc(frame, "Arguments do not match params.", Undefined)]
             ELSE LET b == BindParams(s.m, s.id, calleeVal.fn.node, args, 0)
                  IN  IF ~b.ok THEN [m |-> b.m, cr |-> EvalError]
                      ELSE ContinueWith(Create(b.m, EntryFrame(frame, calleeVal.fn.node, s.id)))

InvokeApplicativeFunction(m, frame, callerScope, calleeVal, args) ==
    IF calleeVal.fn.native THEN [m |-> m, cr |-> EvalError]
    ELSE IF numParams(calleeVal.fn.node) # Len(args)
    THEN [m |-> m, cr |-> EvalExc(frame, "Arguments do not match params.", Undefined)]
    ELSE LET s == CallScope(m, callerScope)
         IN  IF ~s.ok
             THEN [m |-> s.m, cr |-> EvalExc(frame, "Error creating call scope.", Undefined)]
             ELSE LET b == BindParams(s.m, s.id, calleeVal.fn.node, args, 0)
                  IN  IF ~b.ok THEN [m |-> b.m, cr |-> EvalError]
                      ELSE ContinueWith(Create(b.m, EntryFrame(frame, calleeVal.fn.node, s.id)))

\* The first frame under an entry: the statements of a function body run in
\* a BlockSyntaxFrame, any other syntax is dispatched by its node type.
CreateInitialSyntaxFrame(m, parent, entryFrame) ==
    LET node == m.frames[entryFrame].syntaxNode
    IN  IF nodeType(node) = "DefStmt"
        THEN Create(m, SyntaxFrame("BlockSyntaxFrame", parent, entryFrame, node))
        ELSE Create(m, SyntaxFrame("InvokeSyntaxNodeFrame", parent, entryFrame, node))

FunctionObjectForValue(v) == v.t = "funcobj"

GetValueProperty(m, value, name) ==
    IF isPointer(value) THEN GetObjectProperty(m, value, name)
    ELSE [m |-> m, r |-> LookupError]

\* ------------------------------------------------------------------------
\* Frame::Resolve
\* ------------------------------------------------------------------------

StepOf(c) ==
    IF c.ok THEN [m |-> c.m, sr |-> StepContinue(c.id)] ELSE [m |-> c.m, sr |-> ErrorVal]

Crash(m) == [m |-> m, sr |-> [k |-> "Crash", frame |-> 0, result |-> EvalVoid]]

\* result->value() of a result that is not a Value: the assertion aborts a
\* checked build, an unchecked build reads the empty value box.
AssertIsValue(m, result) == result.k = "Value" \/ m.ub = "benign"

\* `return Frame::Resolve(cx, frame, result)`: every Resolve call of the frame
\* methods is a tail call, so a method ends by naming the delivery to make.
Frame_Resolve(m, f, result) ==
    [m |-> m, sr |-> [k |-> "Resolve", frame |-> f, result |-> result]]

\* The syntax handler's CallResult as the invoking frame forwards it.
ForwardCallResult(i, parent) ==
    IF i.cr.k = "Error" THEN Frame_Resolve(i.m, parent, EvalError)
    ELSE IF i.cr.k = "Exc" THEN Frame_Resolve(i.m, parent, i.cr)
    ELSE IF i.cr.k = "Value" THEN Frame_Resolve(i.m, parent, i.cr)
    ELSE IF i.cr.k = "Continue" THEN [m |-> i.m, sr |-> StepContinue(i.cr.frame)]
    ELSE [m |-> i.m, sr |-> ErrorVal]

\* TerminalFrame::ResolveImpl without the result_.set.
TerminalFrame_ResolveImpl_Discard(m, f, result) ==
    [m |-> m, sr |-> StepContinue(f)]

TerminalFrame_ResolveImpl(m, f, result) ==
    [m |-> [m EXCEPT !.frames[f].result = result], sr |-> StepContinue(f)]

EntryFrame_ResolveImpl(m, f, result) == Frame_Resolve(m, m.frames[f].parent, result)

\* Variant: the frame fails on an Error instead of handing it on.
InvokeSyntaxNodeFrame_ResolveImpl_Swallow(m, f, result) ==
    IF result.k = "Error" THEN [m |-> m, sr |-> ErrorVal]
    ELSE Frame_Resolve(m, m.frames[f].parent, result)

InvokeSyntaxNodeFrame_ResolveImpl(m, f, result) == Frame_Resolve(m, m.frames[f].parent, result)

\* Variant: the frame for the next statement is its own parent.
FileSyntaxFrame_CreateNext_Loop(m, curFrame) ==
    Create(m, [m.frames[curFrame] EXCEPT !.no = @ + 1, !.parent = Len(m.frames) + 1])

\* Variant: the frame for the next statement hangs under the current one.
FileSyntaxFrame_CreateNext_Stacked(m, curFrame) ==
    Create(m, [m.frames[curFrame] EXCEPT !.no = @ + 1, !.parent = curFrame])

FileSyntaxFrame_CreateNext(m, curFrame) ==
    Create(m, [m.frames[curFrame] EXCEPT !.no = @ + 1])

\* Variant: the file goes on with its next statement after an Exc.
FileSyntaxFrame_ResolveImpl_Catch(m, f, result) ==
    IF result.k = "Error" THEN Frame_Resolve(m, m.frames[f].parent, result)
    ELSE StepOf(FileSyntaxFrame_CreateNext(m, f))

FileSyntaxFrame_ResolveImpl(m, f, result) ==
    IF result.k \in {"Error", "Exc"} THEN Frame_Resolve(m, m.frames[f].parent, result)
    ELSE StepOf(FileSyntaxFrame_CreateNext(m, f))

BlockSyntaxFrame_CreateNext(m, curFrame) ==
    Create(m, [m.frames[curFrame] EXCEPT !.no = @ + 1])

\* Variant: a block whose statements are done resolves with undefined, as a
\* file does.
BlockSyntaxFrame_ResolveImpl_Undefined(m, f, result) ==
    LET stmtNo == m.frames[f].no
        numStmts == numStatements(m.frames[f].syntaxNode)
    IN  IF result.k \in {"Error", "Exc"} THEN Frame_Resolve(m, m.frames[f].parent, result)
        ELSE IF stmtNo + 1 = numStmts THEN Frame_Resolve(m, m.frames[f].parent, UndefinedValue)
        ELSE StepOf(BlockSyntaxFrame_CreateNext(m, f))

BlockSyntaxFrame_ResolveImpl(m, f, result) ==
    LET stmtNo == m.frames[f].no
        numStmts == numStatements(m.frames[f].syntaxNode)
    IN  IF result.k \in {"Error", "Exc"} THEN Frame_Resolve(m, m.frames[f].parent, result)
        ELSE IF stmtNo + 1 = numStmts THEN Frame_Resolve(m, m.frames[f].parent, result)
        ELSE StepOf(BlockSyntaxFrame_CreateNext(m, f))

\* Variant: the continuation hands its frame back in a Continue, and the
\* value to nobody.
continueWith_Continue(m, cont, value) == [m |-> m, sr |-> StepContinue(cont.n)]

continueWith(m, cont, value) == Frame_Resolve(m, cont.n, EvalValue(value))

\* Raise an exception from frame f to its parent.
Raise(m, f, msg, excArg) ==
    LET e == InternalException(m, f, msg, excArg)
    IN  IF ~e.ok THEN [m |-> e.m, sr |-> ErrorVal]
        ELSE Frame_Resolve(e.m, m.frames[f].parent, e.exc)

\* A return that reports every failure of "@retcont" with one message.
ReturnStmtSyntaxFrame_ResolveImpl_OneMessage(m, f, result) ==
    LET parent == m.frames[f].parent
        scope == m.frames[m.frames[f].entryFrame].scope
        g == GetObjectProperty(m, Object(scope), "@retcont")
    IN  IF result.k \in {"Error", "Exc"} THEN Frame_Resolve(m, parent, result)
        ELSE IF g.r.k = "Error" THEN [m |-> g.m, sr |-> ErrorVal]
        ELSE IF g.r.k = "NotFound" \/ ~isContObject(g.r.v)
        THEN Raise(g.m, f, "return used in non-returnable context.", Undefined)
        ELSE continueWith(g.m, g.r.v, result.v)

ReturnStmtSyntaxFrame_ResolveImpl(m, f, result) ==
    LET parent == m.frames[f].parent
        scope == m.frames[m.frames[f].entryFrame].scope
        g == GetObjectProperty(m, Object(scope), "@retcont")
    IN  IF result.k \in {"Error", "Exc"} THEN Frame_Resolve(m, parent, result)
        ELSE IF ~AssertIsValue(m, result) THEN Crash(m)
        ELSE IF g.r.k = "Error" THEN [m |-> g.m, sr |-> ErrorVal]
        ELSE IF g.r.k = "NotFound"
        THEN Raise(g.m, f, "return used in non-returnable context.", Undefined)
        ELSE IF ~isPointer(g.r.v)
        THEN Raise(g.m, f, "@retcont contains a non-object value.", Undefined)
        ELSE IF ~isContObject(g.r.v)
        THEN Raise(g.m, f, "@retcont contains a non-continuation object.", Undefined)
        ELSE continueWith(g.m, g.r.v, result.v)

\* For var statements: bind undefined to the bindings without initializer,
\* from bindingNo up to the next binding that has one.
RECURSIVE BindUninitialized(_, _, _, _)
BindUninitialized(m, scope, node, bindingNo) ==
    IF bindingNo >= numBindings(node) \/ hasVarexpr(node, bindingNo)
    THEN [ok |-> TRUE, m |-> m, no |-> bindingNo]
    ELSE LET d == DefineProperty(m, scope, varnameCid(node, bindingNo), MakeSlot(Undefined, TRUE))
         IN  IF ~d.ok THEN [ok |-> FALSE, m |-> d.m, no |-> bindingNo]
             ELSE BindUninitialized(d.m, scope, node, bindingNo + 1)

\* Variant: a failed initializer leaves the binding defined as undefined.
VarSyntaxFrame_ResolveImpl_BindFailed(m, f, result) ==
    LET fr == m.frames[f]
        scope == m.frames[fr.entryFrame].scope
        d == DefineProperty(m, scope, varnameCid(fr.syntaxNode, fr.no), MakeSlot(Undefined, TRUE))
    IN  IF result.k \in {"Error", "Exc"}
        THEN Frame_Resolve([m EXCEPT !.scopes = d.m.scopes], fr.parent, result)
        ELSE IF ~d.ok THEN [m |-> d.m, sr |-> ErrorVal]
        ELSE Frame_Resolve(d.m, fr.parent, result)

VarSyntaxFrame_ResolveImpl(m, f, result) ==
    LET fr == m.frames[f]
        node == fr.syntaxNode
        scope == m.frames[fr.entryFrame].scope
        d == DefineProperty(m, scope, varnameCid(node, fr.no), MakeSlot(result.v, ~fr.isConst))
        b == IF fr.isConst THEN [ok |-> TRUE, m |-> d.m, no |-> fr.no + 1]
             ELSE BindUninitialized(d.m, scope, node, fr.no + 1)
    IN  IF result.k \in {"Error", "Exc"} THEN Frame_Resolve(m, fr.parent, result)
        ELSE IF ~AssertIsValue(m, result) THEN Crash(m)
        ELSE IF ~d.ok THEN [m |-> d.m, sr |-> ErrorVal]
        ELSE IF ~b.ok THEN [m |-> b.m, sr |-> ErrorVal]
        ELSE IF b.no = numBindings(node) THEN Frame_Resolve(b.m, fr.parent, result)
        ELSE StepOf(Create(b.m, [fr EXCEPT !.no = b.no]))

CallExprSyntaxFrame_CreateInvoke(m, frame, calleeVal, operands, hasOperands) ==
    Create(m, [m.frames[frame] EXCEPT !.state = "Invoke", !.no = 0, !.callee = calleeVal,
                                      !.operands = operands, !.hasOperands = hasOperands])

CallExprSyntaxFrame_CreateFirstArg(m, calleeFrame, calleeVal) ==
    Create(m, [m.frames[calleeFrame] EXCEPT !.state = "Arg", !.no = 0, !.callee = calleeVal,
                                            !.operands = <<>>, !.hasOperands = FALSE])

CallExprSyntaxFrame_CreateNextArg(m, calleeFrame, operands) ==
    Create(m, [m.frames[calleeFrame] EXCEPT !.state = "Arg", !.no = @ + 1,
                                            !.operands = operands, !.hasOperands = TRUE])

\* Variant: a callee that is not callable ends the call with an Error.
CallExprSyntaxFrame_ResolveCallee_NotCallableError(m, f, result) ==
    LET calleeBox == result.v
    IN  IF ~AssertIsValue(m, result) THEN Crash(m)
        ELSE IF ~FunctionObjectForValue(calleeBox)
        THEN Frame_Resolve(m, m.frames[f].parent, EvalError)
        ELSE IF calleeBox.fn.operative \/ numArgs(m.frames[f].syntaxNode) = 0
        THEN StepOf(CallExprSyntaxFrame_CreateInvoke(m, f, calleeBox, <<>>, FALSE))
        ELSE StepOf(CallExprSyntaxFrame_CreateFirstArg(m, f, calleeBox))

\* Variant: the arguments of a call are evaluated for an operative as they
\* are for an applicative.
CallExprSyntaxFrame_ResolveCallee_EvalOperands(m, f, result) ==
    LET parent == m.frames[f].parent
        calleeBox == result.v
        e == InternalException(m, f, "Callee expression is not callable", calleeBox)
    IN  IF ~AssertIsValue(m, result) THEN Crash(m)
        ELSE IF ~FunctionObjectForValue(calleeBox)
        THEN IF ~e.ok THEN Frame_Resolve(e.m, parent, EvalError)
             ELSE Frame_Resolve(e.m, parent, e.exc)
        ELSE IF numArgs(m.frames[f].syntaxNode) = 0
        THEN StepOf(CallExprSyntaxFrame_CreateInvoke(m, f, calleeBox, <<>>, FALSE))
        ELSE StepOf(CallExprSyntaxFrame_CreateFirstArg(m, f, calleeBox))

CallExprSyntaxFrame_ResolveCallee(m, f, result) ==
    LET parent == m.frames[f].parent
        calleeBox == result.v
        e == InternalException(m, f, "Callee expression is not callable", calleeBox)
    IN  IF ~AssertIsValue(m, result) THEN Crash(m)
        ELSE IF ~FunctionObjectForValue(calleeBox)
        THEN IF ~e.ok THEN Frame_Resolve(e.m, parent, EvalError)
             ELSE Frame_Resolve(e.m, parent, e.exc)
        ELSE IF calleeBox.fn.operative
        THEN StepOf(CallExprSyntaxFrame_CreateInvoke(m, f, calleeBox, <<>>, FALSE))
        ELSE IF numArgs(m.frames[f].syntaxNode) = 0
        THEN StepOf(CallExprSyntaxFrame_CreateInvoke(m, f, calleeBox, <<>>, FALSE))
        ELSE StepOf(CallExprSyntaxFrame_CreateFirstArg(m, f, calleeBox))

\* Variant: the value of an argument is put at the end of the operand list.
CallExprSyntaxFrame_ResolveArg_Append(m, f, result) ==
    LET fr == m.frames[f]
        a == Alloc(m)
        operands == Append(fr.operands, result.v)
    IN  IF ~AssertIsValue(m, result) THEN Crash(m)
        ELSE IF ~a.ok THEN [m |-> a.m, sr |-> ErrorVal]
        ELSE IF fr.no + 1 = numArgs(fr.syntaxNode)
        THEN StepOf(CallExprSyntaxFrame_CreateInvoke(a.m, f, fr.callee, operands, TRUE))
        ELSE StepOf(CallExprSyntaxFrame_CreateNextArg(a.m, f, operands))

\* operands is the Slist: the most recent argument value is its head.
CallExprSyntaxFrame_ResolveArg(m, f, result) ==
    LET fr == m.frames[f]
        a == Alloc(m)
        operands == <<result.v>> \o fr.operands
        nextArgNo == fr.no + 1
    IN  IF ~AssertIsValue(m, result) THEN Crash(m)
        ELSE IF ~a.ok THEN [m |-> a.m, sr |-> ErrorVal]
        ELSE IF nextArgNo = numArgs(fr.syntaxNode)
        THEN StepOf(CallExprSyntaxFrame_CreateInvoke(a.m, f, fr.callee, operands, TRUE))
        ELSE StepOf(CallExprSyntaxFrame_CreateNextArg(a.m, f, operands))

CallExprSyntaxFrame_ResolveInvoke(m, f, result) ==
    IF ~AssertIsValue(m, result) THEN Crash(m)
    ELSE Frame_Resolve(m, m.frames[f].parent, result)

\* Variant: an argument that raised an exception counts as undefined.
CallExprSyntaxFrame_ResolveImpl_SkipFailed(m, f, result) ==
    IF result.k = "Exc" /\ m.frames[f].state = "Arg"
    THEN CallExprSyntaxFrame_ResolveArg(m, f, UndefinedValue)
    ELSE IF result.k \in {"Error", "Exc"} THEN Frame_Resolve(m, m.frames[f].parent, result)
    ELSE IF m.frames[f].state = "Callee" THEN CallExprSyntaxFrame_ResolveCallee(m, f, result)
    ELSE IF m.frames[f].state = "Arg" THEN CallExprSyntaxFrame_ResolveArg(m, f, result)
    ELSE CallExprSyntaxFrame_ResolveInvoke(m, f, result)

CallExprSyntaxFrame_ResolveImpl(m, f, result) ==
    IF result.k \in {"Error", "Exc"} THEN Frame_Resolve(m, m.frames[f].parent, result)
    ELSE IF m.frames[f].state = "Callee" THEN CallExprSyntaxFrame_ResolveCallee(m, f, result)
    ELSE IF m.frames[f].state = "Arg" THEN CallExprSyntaxFrame_ResolveArg(m, f, result)
    ELSE CallExprSyntaxFrame_ResolveInvoke(m, f, result)

InvokeApplicativeFrame_ResolveImpl(m, f, result) == Frame_Resolve(m, m.frames[f].parent, result)

InvokeOperativeFrame_ResolveImpl(m, f, result) == Frame_Resolve(m, m.frames[f].parent, result)

DotExprSyntaxFrame_Forward(i, parent) ==
    IF i.cr.k = "Error" THEN [m |-> i.m, sr |-> ErrorVal]
    ELSE IF i.cr.k \in {"Exc", "Value"} THEN Frame_Resolve(i.m, parent, i.cr)
    ELSE IF i.cr.k = "Continue" THEN [m |-> i.m, sr |-> StepContinue(i.cr.frame)]
    ELSE Crash(i.m)

DotExprSyntaxFrame_ResolveImpl(m, f, result) ==
    LET fr == m.frames[f]
        scope == m.frames[fr.entryFrame].scope
        g == GetValueProperty(m, result.v, "@Dot")
    IN  IF result.k \in {"Error", "Exc"} THEN Frame_Resolve(m, fr.parent, result)
        ELSE IF ~AssertIsValue(m, result) THEN Crash(m)
        ELSE IF g.r.k = "Error" THEN [m |-> g.m, sr |-> ErrorVal]
        ELSE IF g.r.k = "NotFound"
        THEN Raise(g.m, f, "@Dot method not defined on target of DotExpr", result.v)
        ELSE DotExprSyntaxFrame_Forward(
                InvokeOperativeValue(g.m, f, scope, g.r.v, <<fr.syntaxNode>>), fr.parent)

\* Variant: an exception of the resume function reaches the parent as Error.
NativeCallResumeFrame_ResolveImpl_ExcAsError(m, f, result) ==
    LET parent == m.frames[f].parent
        i == NativeResume(m.frames[f].resumeFunc, m, parent, result)
    IN  IF i.cr.k = "Exc" THEN Frame_Resolve(i.m, parent, EvalError)
        ELSE ForwardCallResult(i, parent)

NativeCallResumeFrame_ResolveImpl(m, f, result) ==
    LET parent == m.frames[f].parent
    IN  ForwardCallResult(NativeResume(m.frames[f].resumeFunc, m, parent, result), parent)

\* Frame::Resolve: the result is delivered to frame f, and on to the frames
\* its method resolves in turn.
RECURSIVE Resolve(_, _, _)

\* A frame method runs to the StepResult it returns.
Run(r) == IF r.sr.k = "Resolve" THEN Resolve(r.m, r.sr.frame, r.sr.result) ELSE r

Delivered(m, f, result) == [m EXCEPT !.rlog = Append(@, [frame |-> f, result |-> result])]

ResolveImpl(kind, lm, f, result) ==
          CASE kind = "TerminalFrame" -> TerminalFrame_ResolveImpl(lm, f, result)
               [] kind = "EntryFrame" -> EntryFrame_ResolveImpl(lm, f, result)
               [] kind = "InvokeSyntaxNodeFrame" -> InvokeSyntaxNodeFrame_ResolveImpl(lm, f, result)
               [] kind = "FileSyntaxFrame" -> FileSyntaxFrame_ResolveImpl(lm, f, result)
               [] kind = "BlockSyntaxFrame" -> BlockSyntaxFrame_ResolveImpl(lm, f, result)
               [] kind = "ReturnStmtSyntaxFrame" -> ReturnStmtSyntaxFrame_ResolveImpl(lm, f, result)
               [] kind = "VarSyntaxFrame" -> VarSyntaxFrame_ResolveImpl(lm, f, result)
               [] kind = "CallExprSyntaxFrame" -> CallExprSyntaxFrame_ResolveImpl(lm, f, result)
               [] kind = "InvokeApplicativeFrame" -> InvokeApplicativeFrame_ResolveImpl(lm, f, result)
               [] kind = "InvokeOperativeFrame" -> InvokeOperativeFrame_ResolveImpl(lm, f, result)
               [] kind = "DotExprSyntaxFrame" -> DotExprSyntaxFrame_ResolveImpl(lm, f, result)
               [] kind = "NativeCallResumeFrame" -> NativeCallResumeFrame_ResolveImpl(lm, f, result)
               [] OTHER -> [m |-> lm, sr |-> ErrorVal]

Resolve(m, f, result) == Run(ResolveImpl(m.frames[f].kind, Delivered(m, f, result), f, result))

\* ------------------------------------------------------------------------
\* Frame::Step, per frame kind
\* ------------------------------------------------------------------------

\* SyntaxNode::Create for a sub-node, then an InvokeSyntaxNodeFrame over it
\* whose parent is frame f.
StepSubexpr(m, f, node) ==
    LET a == Alloc(m)
    IN  IF ~a.ok THEN [m |-> a.m, sr |-> ErrorVal]
        ELSE StepOf(Create(a.m,
                SyntaxFrame("InvokeSyntaxNodeFrame", f, m.frames[f].entryFrame, node)))

EntryFrame_StepImpl(m, f) == StepOf(CreateInitialSyntaxFrame(m, f, f))

\* Variant: an Error of the syntax handler stops the loop; the parent is not
\* resolved.
InvokeSyntaxNodeFrame_StepImpl_ErrorStops(m, f) ==
    LET fr == m.frames[f]
        name == syntaxHandlerName(fr.syntaxNode)
        scope == m.frames[fr.entryFrame].scope
        g == GetObjectProperty(m, Object(scope), name)
        lookupEvalResult == toEvalResult(g.r, f, name)
        i == InvokeOperativeValue(g.m, f, scope, lookupEvalResult.v, <<fr.syntaxNode>>)
    IN  IF name = "" THEN [m |-> m, sr |-> ErrorVal]
        ELSE IF lookupEvalResult.k # "Value" THEN Frame_Resolve(g.m, fr.parent, lookupEvalResult)
        ELSE IF i.cr.k = "Error" THEN [m |-> i.m, sr |-> ErrorVal]
        ELSE ForwardCallResult(i, fr.parent)

InvokeSyntaxNodeFrame_StepImpl(m, f) ==
    LET fr == m.frames[f]
        name == syntaxHandlerName(fr.syntaxNode)
        scope == m.frames[fr.entryFrame].scope
        g == GetObjectProperty(m, Object(scope), name)
        lookupEvalResult == toEvalResult(g.r, f, name)
    IN  IF name = "" THEN [m |-> m, sr |-> ErrorVal]
        ELSE IF lookupEvalResult.k # "Value" THEN Frame_Resolve(g.m, fr.parent, lookupEvalResult)
        ELSE ForwardCallResult(
                InvokeOperativeValue(g.m, f, scope, lookupEvalResult.v, <<fr.syntaxNode>>),
                fr.parent)

\* Variant: the file takes its statements from the last to the first.
FileSyntaxFrame_StepImpl_Backwards(m, f) ==
    LET fr == m.frames[f]
        n == numStatements(fr.syntaxNode)
    IN  IF fr.no = n
        THEN Frame_Resolve(m, fr.parent, UndefinedValue)
        ELSE StepSubexpr(m, f, statement(fr.syntaxNode, n - 1 - fr.no))

\* Variant: a file whose statements are done resolves with Void.
FileSyntaxFrame_StepImpl_Void(m, f) ==
    LET fr == m.frames[f]
    IN  IF fr.no = numStatements(fr.syntaxNode)
        THEN Frame_Resolve(m, fr.parent, EvalVoid)
        ELSE StepSubexpr(m, f, statement(fr.syntaxNode, fr.no))

FileSyntaxFrame_StepImpl(m, f) ==
    LET fr == m.frames[f]
    IN  IF fr.no = numStatements(fr.syntaxNode)
        THEN Frame_Resolve(m, fr.parent, UndefinedValue)
        ELSE StepSubexpr(m, f, statement(fr.syntaxNode, fr.no))

\* WH_ASSERT(statementNo < numStatements), then statement(statementNo) is
\* read whatever the number: past the end of the block a checked build
\* aborts, an unchecked build takes the words after the block for a node.
BlockSyntaxFrame_StepImpl(m, f) ==
    LET fr == m.frames[f]
    IN  IF fr.no < numStatements(fr.syntaxNode)
        THEN StepSubexpr(m, f, statement(fr.syntaxNode, fr.no))
        ELSE IF m.ub = "crash" THEN Crash(m)
        ELSE StepSubexpr(m, f, fr.syntaxNode + 1)

ReturnStmtSyntaxFrame_StepImpl(m, f) ==
    LET fr == m.frames[f]
    IN  IF ~hasExpression(fr.syntaxNode)
        THEN ReturnStmtSyntaxFrame_ResolveImpl(m, f, EvalValue(Undefined))
        ELSE StepSubexpr(m, f, expression(fr.syntaxNode))

\* Variant: the step hands the frame back as it is.
VarSyntaxFrame_StepImpl_Stay(m, f) == [m |-> m, sr |-> StepContinue(f)]

VarSyntaxFrame_StepImpl(m, f) ==
    LET fr == m.frames[f]
        node == fr.syntaxNode
        scope == m.frames[fr.entryFrame].scope
        b == IF fr.isConst THEN [ok |-> TRUE, m |-> m, no |-> fr.no]
             ELSE BindUninitialized(m, scope, node, fr.no)
    IN  IF ~b.ok THEN [m |-> b.m, sr |-> ErrorVal]
        ELSE IF b.no = numBindings(node) THEN Frame_Resolve(b.m, fr.parent, EvalValue(Undefined))
        ELSE StepSubexpr(b.m, f, varexpr(node, b.no))

CallExprSyntaxFrame_StepCallee(m, f) == StepSubexpr(m, f, callee(m.frames[f].syntaxNode))

CallExprSyntaxFrame_StepArg(m, f) ==
    StepSubexpr(m, f, arg(m.frames[f].syntaxNode, m.frames[f].no))

CallExprSyntaxFrame_StepInvoke(m, f) ==
    LET fr == m.frames[f]
    IN  IF ~fr.callee.fn.operative
        THEN StepOf(Create(m, [BaseFrame("InvokeApplicativeFrame", f) EXCEPT
                !.callee = fr.callee, !.operands = fr.operands, !.hasOperands = fr.hasOperands]))
        ELSE StepOf(Create(m, [BaseFrame("InvokeOperativeFrame", f) EXCEPT
                !.callee = fr.callee, !.syntaxNode = fr.syntaxNode]))

\* The arguments in call order: the operand list reversed.
RECURSIVE Reverse(_)
Reverse(s) == IF s = <<>> THEN <<>> ELSE Append(Reverse(Tail(s)), Head(s))

\* operands->length() of a null operand list (a call without arguments) is
\* a member call through a null pointer: the build either reads length 0 or
\* faults.
InvokeApplicativeFrame_StepImpl(m, f) ==
    LET fr == m.frames[f]
        callerScope == m.frames[ancestorEntryFrame(m.frames, f)].scope
        args == Reverse(fr.operands)
        i == InvokeApplicativeFunction(m, f, callerScope, fr.callee, args)
    IN  IF ~fr.hasOperands /\ m.ub = "crash" THEN Crash(m)
        ELSE ForwardCallResult(i, fr.parent)

\* One SyntaxNode per raw argument, i = 0 .. numArgs-1.
RECURSIVE OperandExprs(_, _, _)
OperandExprs(m, node, i) ==
    IF i = numArgs(node) THEN [ok |-> TRUE, m |-> m, nodes |-> <<>>]
    ELSE LET a == Alloc(m)
             rest == OperandExprs(a.m, node, i + 1)
         IN  IF ~a.ok THEN [ok |-> FALSE, m |-> a.m, nodes |-> <<>>]
             ELSE [ok |-> rest.ok, m |-> rest.m, nodes |-> <<arg(node, i)>> \o rest.nodes]

InvokeOperativeFrame_StepImpl(m, f) ==
    LET fr == m.frames[f]
        callerScope == m.frames[ancestorEntryFrame(m.frames, f)].scope
        o == OperandExprs(m, fr.syntaxNode, 0)
        i == InvokeOperativeFunction(o.m, f, callerScope, fr.callee, o.nodes)
    IN  IF ~o.ok THEN [m |-> o.m, sr |-> ErrorVal]
        ELSE ForwardCallResult(i, fr.parent)

DotExprSyntaxFrame_StepImpl(m, f) == StepSubexpr(m, f, target(m.frames[f].syntaxNode))

NativeCallResumeFrame_StepImpl(m, f) ==
    StepOf(Create(m, EntryFrame(f, m.frames[f].syntaxNode, m.frames[f].scope)))

\* ------------------------------------------------------------------------
\* The frame machine
\* ------------------------------------------------------------------------

VARIABLES
    frames,     \* frame id -> frame; frame 1 is the TerminalFrame
    scopes,     \* scope id -> scope object; scope 1 is the global scope
    top,        \* the frame the trampoline steps next
    status,     \* "running", "done", "halted" (Step returned Error), "crashed"
    rlog,       \* the Resolve deliveries of the last step, in order
    calls,      \* the native invocations of the last step, in order
    failed,     \* an allocation of the last step failed
    native,     \* the C stack of InterpretSyntax activations (interp/interpreter.cpp)
    flow,       \* the ControlFlow the last finished InterpretSyntax returned
    heap,       \* address -> heap object: format, generation, heap fields
    hroot,      \* the rooted handle on the top frame (0 = none)
    hlocal,     \* the rooted handle on the object allocated last (0 = none)
    dirty,      \* the addresses whose card is marked dirty
    vin,        \* the argument a Value constructor is called with
    tagged,        \* the tagged_ word of the Value constructed (<<>> = none yet)
    got,        \* what the accessors read back from tagged
    slab,       \* the allocation pointers of one Slab
    blocks,     \* the blocks the slab has handed out
    ret         \* the last allocation request and the pointer it returned

\* The pointers of one slab and the record of its allocations.
slabvars == <<slab, blocks, ret>>

\* The slab heap the collector works on.
memvars == <<heap, hroot, hlocal, dirty, slabvars>>

\* The Value under construction (value.hpp).
valvars == <<vin, tagged, got>>

vars == <<frames, scopes, top, status, rlog, calls, failed, native, flow, memvars, valvars>>

\* Every heap-valued field a frame class of vm/frame.hpp declares.
FieldNames ==
    {"parent_", "result_", "entryFrame_", "syntaxNode_", "scope_", "callee_",
     "calleeFunc_", "operands_", "lookupState_", "callerScope_", "receiver_",
     "evalScope_", "resumeState_"}

\* An address nothing was allocated at yet.
NoThing == [format |-> "None", gen |-> "Unused", fields |-> [f \in FieldNames |-> 0], to |-> 0]

\* Slab::AllocAlign is sizeof(void *) on a 64-bit build.
AllocAlign == 8

\* A null pointer.
nullptr == 0

\* The words below the allocation space of the slab.
SlabBaseWords == 4

\* The words of the allocation space of the slab.
SlabWords == 5

\* The address of the first byte of the allocation space.
SlabRegion == SlabBaseWords * AllocAlign

\* The bytes of the allocation space.
SlabRegionSize == SlabWords * AllocAlign

\* Slab::headStartAlloc: the first word of the allocation space holds the
\* pointer to the slab structure.
headStartAlloc(s) == s.allocTop_ + AllocAlign

\* Slab::tailStartAlloc
tailStartAlloc(s) == s.allocBottom_

\* The Slab constructor: the allocation space is the region, and the two
\* allocation pointers start at its two ends.
Slab_Construct(region, regionSize) ==
    LET s == [allocTop_ |-> region, allocBottom_ |-> region + regionSize,
              headAlloc_ |-> nullptr, tailAlloc_ |-> nullptr]
    IN  [s EXCEPT !.headAlloc_ = headStartAlloc(s),
                  !.tailAlloc_ = tailStartAlloc(s)]

\* No allocation was requested yet.
NoRequest == [op |-> "none", amount |-> 0, ptr |-> nullptr]

\* The slab after construction.
SlabIdle ==
    /\ slab = Slab_Construct(SlabRegion, SlabRegionSize)
    /\ blocks = {}
    /\ ret = NoRequest

\* The heap before the first allocation.
MemIdle ==
    /\ heap = [a \in 1..MaxAddr |-> NoThing]
    /\ hroot = 0
    /\ hlocal = 0
    /\ dirty = {}
    /\ SlabIdle

\* No Value constructed yet.
ValIdle ==
    /\ vin = [ctor |-> "none", n |-> 0, s |-> <<>>]
    /\ tagged = <<>>
    /\ got = [k |-> "none", n |-> 0, s |-> <<>>]

RetcontKinds == {"none", "int", "obj", "cont"}

\* interp/syntax_behaviour.cpp BindSyntaxHandlers
BoundHandlers ==
    {"File", "EmptyStmt", "ExprStmt", "ReturnStmt", "DefStmt", "VarStmt",
     "ParenExpr", "NameExpr", "IntegerExpr"}

\* Handlers behind the frame kinds of vm/frame.hpp that have no binding in
\* BindSyntaxHandlers.
FrameHandlers == {"ConstStmt", "CallExpr", "DotExpr"}

BindHandlers(types) ==
    [nm \in Names |->
        IF \E ty \in types : nm = "@" \o ty
        THEN MakeMethod(NativeFunction("Lift_" \o (CHOOSE ty \in types : nm = "@" \o ty), TRUE))
        ELSE NoDesc]

BindSyntaxHandlers == BindHandlers(BoundHandlers)

\* What the embedder binds to "@retcont" on the global scope.
RetcontBinding(kind) ==
    CASE kind = "none" -> NoDesc
      [] kind = "int" -> MakeSlot(Integer(0), TRUE)
      [] kind = "obj" -> MakeSlot(Object(1), TRUE)
      [] kind = "cont" -> MakeSlot(ContObject(2), TRUE)

GlobalScope(retcont) ==
    ScopeObject(
        [nm \in Names |->
            IF nm = "@retcont" THEN RetcontBinding(retcont)
            ELSE IF \E d \in HostDefs : Tree[d].name = nm
            THEN MakeMethod(ScriptedFunction(CHOOSE d \in HostDefs : Tree[d].name = nm, 1, FALSE))
            ELSE BindHandlers(BoundHandlers \cup FrameHandlers)[nm]],
        0)

\* interpret_source_file: a TerminalFrame, an EntryFrame over the file and
\* the global scope, and the trampoline about to step the EntryFrame.
Init ==
    \E root \in Roots, retcont \in RetcontKinds :
        /\ frames = <<TerminalFrame, EntryFrame(1, root, 1)>>
        /\ scopes = <<GlobalScope(retcont)>>
        /\ top = 2
        /\ status = "running"
        /\ rlog = <<>>
        /\ calls = <<>>
        /\ failed = FALSE
        /\ native = <<>>
        /\ flow = EvalVoid
        /\ MemIdle
        /\ ValIdle

\* The machine state a step starts from.
Machine(fail, ub) ==
    [frames |-> frames, scopes |-> scopes, oom |-> fail, ub |-> ub,
     failed |-> FALSE, rlog |-> <<>>, calls |-> <<>>]

\* The trampoline takes the StepResult: Continue(f) makes f the top frame,
\* and the run is done once that is the TerminalFrame; Error stops the loop.
Trampoline(r) ==
    /\ frames' = r.m.frames
    /\ scopes' = r.m.scopes
    /\ rlog' = r.m.rlog
    /\ calls' = r.m.calls
    /\ failed' = r.m.failed
    /\ UNCHANGED <<native, flow, memvars, valvars>>
    /\ top' = IF r.sr.k = "Continue" THEN r.sr.frame ELSE top
    /\ status' = IF r.sr.k = "Continue"
                 THEN IF r.m.frames[r.sr.frame].kind = "TerminalFrame" THEN "done" ELSE "running"
                 ELSE IF r.sr.k = "Error" THEN "halted" ELSE "crashed"

Stepping(kind) == status = "running" /\ frames[top].kind = kind

StepEntryFrame ==
    /\ Stepping("EntryFrame")
    /\ \E fail \in 0..MaxAllocSite, ub \in {"benign", "crash"} :
          Trampoline(Run(EntryFrame_StepImpl(Machine(fail, ub), top)))

StepInvokeSyntaxNodeFrame ==
    /\ Stepping("InvokeSyntaxNodeFrame")
    /\ \E fail \in 0..MaxAllocSite, ub \in {"benign", "crash"} :
          Trampoline(Run(InvokeSyntaxNodeFrame_StepImpl(Machine(fail, ub), top)))

StepFileSyntaxFrame ==
    /\ Stepping("FileSyntaxFrame")
    /\ \E fail \in 0..MaxAllocSite, ub \in {"benign", "crash"} :
          Trampoline(Run(FileSyntaxFrame_StepImpl(Machine(fail, ub), top)))

StepBlockSyntaxFrame ==
    /\ Stepping("BlockSyntaxFrame")
    /\ \E fail \in 0..MaxAllocSite, ub \in {"benign", "crash"} :
          Trampoline(Run(BlockSyntaxFrame_StepImpl(Machine(fail, ub), top)))

StepReturnStmtSyntaxFrame ==
    /\ Stepping("ReturnStmtSyntaxFrame")
    /\ \E fail \in 0..MaxAllocSite, ub \in {"benign", "crash"} :
          Trampoline(Run(ReturnStmtSyntaxFrame_StepImpl(Machine(fail, ub), top)))

StepVarSyntaxFrame ==
    /\ Stepping("VarSyntaxFrame")
    /\ \E fail \in 0..MaxAllocSite, ub \in {"benign", "crash"} :
          Trampoline(Run(VarSyntaxFrame_StepImpl(Machine(fail, ub), top)))

StepCallee ==
    /\ Stepping("CallExprSyntaxFrame") /\ frames[top].state = "Callee"
    /\ \E fail \in 0..MaxAllocSite, ub \in {"benign", "crash"} :
          Trampoline(Run(CallExprSyntaxFrame_StepCallee(Machine(fail, ub), top)))

StepArg ==
    /\ Stepping("CallExprSyntaxFrame") /\ frames[top].state = "Arg"
    /\ \E fail \in 0..MaxAllocSite, ub \in {"benign", "crash"} :
          Trampoline(Run(CallExprSyntaxFrame_StepArg(Machine(fail, ub), top)))

StepInvoke ==
    /\ Stepping("CallExprSyntaxFrame") /\ frames[top].state = "Invoke"
    /\ \E fail \in 0..MaxAllocSite, ub \in {"benign", "crash"} :
          Trampoline(Run(CallExprSyntaxFrame_StepInvoke(Machine(fail, ub), top)))

StepInvokeApplicativeFrame ==
    /\ Stepping("InvokeApplicativeFrame")
    /\ \E fail \in 0..MaxAllocSite, ub \in {"benign", "crash"} :
          Trampoline(Run(InvokeApplicativeFrame_StepImpl(Machine(fail, ub), top)))

StepInvokeOperativeFrame ==
    /\ Stepping("InvokeOperativeFrame")
    /\ \E fail \in 0..MaxAllocSite, ub \in {"benign", "crash"} :
          Trampoline(Run(InvokeOperativeFrame_StepImpl(Machine(fail, ub), top)))

StepDotExprSyntaxFrame ==
    /\ Stepping("DotExprSyntaxFrame")
    /\ \E fail \in 0..MaxAllocSite, ub \in {"benign", "crash"} :
          Trampoline(Run(DotExprSyntaxFrame_StepImpl(Machine(fail, ub), top)))

StepNativeCallResumeFrame ==
    /\ Stepping("NativeCallResumeFrame")
    /\ \E fail \in 0..MaxAllocSite, ub \in {"benign", "crash"} :
          Trampoline(Run(NativeCallResumeFrame_StepImpl(Machine(fail, ub), top)))

\* Between two steps the embedder replaces the "@NameExpr" handler of a
\* scope by an operative of its own.
HostDefineProperty ==
    /\ status = "running"
    /\ \E s \in 1..Len(scopes) :
          /\ scopes[s].dict["@NameExpr"].fn.impl # "Host_Handler"
          /\ scopes' = DefineProperty(Machine(0, "benign"), s, "@NameExpr",
                            MakeMethod(NativeFunction("Host_Handler", TRUE))).m.scopes
    /\ rlog' = <<>>
    /\ calls' = <<>>
    /\ UNCHANGED <<frames, top, status, failed, native, flow, memvars, valvars>>

\* What the embedder may bind to "@Dot" on the global object: an operative
\* native, a value that is no function, a scripted applicative.
DotBindings ==
    {MakeMethod(NativeFunction("Host_Handler", TRUE)),
     MakeSlot(Integer(0), TRUE),
     MakeMethod(ScriptedFunction(CHOOSE d \in HostDefs : Tree[d].name = "k", 1, FALSE))}

\* Before the first step the embedder defines "@Dot" on the global object.
HostDefineDot ==
    /\ status = "running"
    /\ Len(frames) = 2
    /\ scopes[1].dict["@Dot"].kind = "none"
    /\ \E d \in DotBindings :
          scopes' = DefineProperty(Machine(0, "benign"), 1, "@Dot", d).m.scopes
    /\ rlog' = <<>>
    /\ calls' = <<>>
    /\ UNCHANGED <<frames, top, status, failed, native, flow, memvars, valvars>>

Step ==
    \/ StepEntryFrame
    \/ StepInvokeSyntaxNodeFrame
    \/ StepFileSyntaxFrame
    \/ StepBlockSyntaxFrame
    \/ StepReturnStmtSyntaxFrame
    \/ StepVarSyntaxFrame
    \/ StepCallee
    \/ StepArg
    \/ StepInvoke
    \/ StepInvokeApplicativeFrame
    \/ StepInvokeOperativeFrame
    \/ StepDotExprSyntaxFrame
    \/ StepNativeCallResumeFrame

Next == Step \/ HostDefineProperty \/ HostDefineDot

Spec == Init /\ [][Next]_vars

\* ------------------------------------------------------------------------
\* The frame machine with a sub-evaluation that resolves with Void
\* ------------------------------------------------------------------------

\* Frame::Resolve(cx, parent, Void): the sub-evaluation the top frame stands
\* for hands Void to the frame that waits for the value of a variable
\* initializer, of a callee or of an argument.
ResolveVoid ==
    /\ Stepping("InvokeSyntaxNodeFrame")
    /\ frames[frames[top].parent].kind \in {"VarSyntaxFrame", "CallExprSyntaxFrame"}
    /\ \E ub \in {"benign", "crash"} :
          Trampoline(Resolve(Machine(0, ub), frames[top].parent, EvalVoid))

NextResolve == Next \/ ResolveVoid

SpecResolve == Init /\ [][NextResolve]_vars

\* ------------------------------------------------------------------------
\* The recursive interpreter (interp/interpreter.cpp) with the native
\* handlers of interp/syntax_behaviour.cpp.  The C stack is explicit: one
\* activation per native function that has been entered and has not
\* returned, the innermost last.  An activation that has called
\* InterpretSyntax on a sub-node waits until that call has returned its
\* ControlFlow.  No allocation fails here.
\* ------------------------------------------------------------------------

Activation(fn, node, scope) ==
    [fn |-> fn, node |-> node, scope |-> scope, no |-> 0, waiting |-> FALSE]

FlowReturn(v) == [k |-> "Return", v |-> v, frame |-> 0, msg |-> "", arg |-> Undefined]

setExceptionRaised(msg, excArg) == EvalExc(0, msg, excArg)

\* InterpretSyntax and DispatchSyntaxMethod, up to the call of the native:
\* the handler to enter, or the ControlFlow of a failed dispatch.
InterpretSyntax(sc, scope, node) ==
    LET name == syntaxHandlerName(node)
        desc == LookupProperty(sc, scope, name)
        func == IF desc.kind = "method" THEN desc.fn ELSE desc.val.fn
        fail(c) == [enter |-> FALSE, fn |-> "", flow |-> c]
    IN  IF name = "" THEN fail(EvalError)
        ELSE IF desc.kind = "none"
        THEN fail(setExceptionRaised("Syntax method binding not found.", StringVal(name)))
        ELSE IF desc.kind = "slot" /\ desc.val.t # "funcobj"
        THEN fail(setExceptionRaised("Syntax method binding is not a function.", StringVal(name)))
        ELSE IF ~func.operative
        THEN fail(setExceptionRaised("Syntax method binding is applicative.", StringVal(name)))
        ELSE IF ~func.native THEN fail(EvalError)
        ELSE [enter |-> TRUE, fn |-> func.impl, flow |-> EvalVoid]

InnerMost == native[Len(native)]

Running(fn) == status = "running" /\ native # <<>> /\ InnerMost.fn = fn

\* The innermost activation, at loop index no, calls InterpretSyntax on a
\* sub-node: the native handler found for it is entered on top of the
\* caller; a failed dispatch returns its ControlFlow at once.
CallInterpretSyntax(sc, no, node) ==
    LET d == InterpretSyntax(sc, InnerMost.scope, node)
        below == [native EXCEPT ![Len(native)] = [@ EXCEPT !.no = no, !.waiting = TRUE]]
    IN  /\ native' = IF d.enter
                     THEN Append(below, Activation(d.fn, node, InnerMost.scope))
                     ELSE below
        /\ flow' = d.flow
        /\ status' = status

\* The innermost activation returns the ControlFlow c to its caller.
NativeReturn(c) ==
    /\ native' = SubSeq(native, 1, Len(native) - 1)
    /\ flow' = c
    /\ status' = IF Len(native) = 1 THEN "done" ELSE "running"

\* A native that calls InterpretSyntax once and returns what it gets.
ForwardSubNode(node) ==
    IF ~InnerMost.waiting THEN CallInterpretSyntax(scopes, 0, node) ELSE NativeReturn(flow)

InterpretSourceFile ==
    /\ Running("InterpretSourceFile")
    /\ ForwardSubNode(InnerMost.node)
    /\ UNCHANGED <<frames, scopes, top, rlog, calls, failed, memvars, valvars>>

Lift_File ==
    /\ Running("Lift_File")
    /\ LET i == IF InnerMost.waiting THEN InnerMost.no + 1 ELSE 0
       IN  IF InnerMost.waiting /\ flow.k \notin {"Void", "Value"} THEN NativeReturn(flow)
           ELSE IF i < numStatements(InnerMost.node)
           THEN CallInterpretSyntax(scopes, i, statement(InnerMost.node, i))
           ELSE NativeReturn(EvalVoid)
    /\ UNCHANGED <<frames, scopes, top, rlog, calls, failed, memvars, valvars>>

Lift_ExprStmt ==
    /\ Running("Lift_ExprStmt")
    /\ ForwardSubNode(expression(InnerMost.node))
    /\ UNCHANGED <<frames, scopes, top, rlog, calls, failed, memvars, valvars>>

Lift_ReturnStmt ==
    /\ Running("Lift_ReturnStmt")
    /\ IF InnerMost.waiting
       THEN NativeReturn(IF flow.k = "Value" THEN FlowReturn(flow.v) ELSE flow)
       ELSE IF ~hasExpression(InnerMost.node) THEN NativeReturn(FlowReturn(Undefined))
       ELSE CallInterpretSyntax(scopes, 0, expression(InnerMost.node))
    /\ UNCHANGED <<frames, scopes, top, rlog, calls, failed, memvars, valvars>>

Lift_VarStmt ==
    /\ Running("Lift_VarStmt")
    /\ LET a == InnerMost
           m0 == Machine(0, "benign")
           bound == IF a.waiting /\ flow.k = "Value"
                    THEN DefineProperty(m0, a.scope, varnameCid(a.node, a.no),
                                        MakeSlot(flow.v, TRUE)).m
                    ELSE m0
           b == BindUninitialized(bound, a.scope, a.node, IF a.waiting THEN a.no + 1 ELSE 0)
       IN  IF a.waiting /\ flow.k # "Value"
           THEN NativeReturn(flow) /\ scopes' = scopes
           ELSE /\ scopes' = b.m.scopes
                /\ IF b.no = numBindings(a.node) THEN NativeReturn(EvalVoid)
                   ELSE CallInterpretSyntax(b.m.scopes, b.no, varexpr(a.node, b.no))
    /\ UNCHANGED <<frames, top, rlog, calls, failed, memvars, valvars>>

Lift_ParenExpr ==
    /\ Running("Lift_ParenExpr")
    /\ ForwardSubNode(subexpr(InnerMost.node))
    /\ UNCHANGED <<frames, scopes, top, rlog, calls, failed, memvars, valvars>>

\* A native that calls nothing: it runs to its return.
LeafNative(r) ==
    /\ NativeReturn(r.cr)
    /\ scopes' = r.m.scopes
    /\ UNCHANGED <<frames, top, rlog, calls, failed, memvars, valvars>>

Native_EmptyStmt ==
    /\ Running("Lift_EmptyStmt")
    /\ LeafNative(Lift_EmptyStmt(Machine(0, "benign"), 0, InnerMost.scope, InnerMost.scope,
                                 <<InnerMost.node>>))

Native_DefStmt ==
    /\ Running("Lift_DefStmt")
    /\ LeafNative(Lift_DefStmt(Machine(0, "benign"), 0, InnerMost.scope, InnerMost.scope,
                               <<InnerMost.node>>))

Native_NameExpr ==
    /\ Running("Lift_NameExpr")
    /\ LeafNative(Lift_NameExpr(Machine(0, "benign"), 0, InnerMost.scope, InnerMost.scope,
                                <<InnerMost.node>>))

Native_IntegerExpr ==
    /\ Running("Lift_IntegerExpr")
    /\ LeafNative(Lift_IntegerExpr(Machine(0, "benign"), 0, InnerMost.scope, InnerMost.scope,
                                   <<InnerMost.node>>))

\* interpret_source_file entered with a file and the global scope that
\* BindSyntaxHandlers has filled.
InitInterp ==
    \E root \in Roots :
        /\ frames = <<>>
        /\ scopes = <<ScopeObject(BindSyntaxHandlers, 0)>>
        /\ top = 0
        /\ status = "running"
        /\ rlog = <<>>
        /\ calls = <<>>
        /\ failed = FALSE
        /\ native = <<Activation("InterpretSourceFile", root, 1)>>
        /\ flow = EvalVoid
        /\ MemIdle
        /\ ValIdle

NextInterp ==
    \/ InterpretSourceFile
    \/ Lift_File
    \/ Native_EmptyStmt
    \/ Lift_ExprStmt
    \/ Lift_ReturnStmt
    \/ Native_DefStmt
    \/ Lift_VarStmt
    \/ Lift_ParenExpr
    \/ Native_NameExpr
    \/ Native_IntegerExpr

SpecInterp == InitInterp /\ [][NextInterp]_vars

\* ------------------------------------------------------------------------
\* Properties of the frame machine
\* ------------------------------------------------------------------------

\* Delivery i of the last step was followed by the delivery of the same
\* result to the parent of the frame that received it.
ForwardedToParent(i) ==
    /\ i < Len(rlog)
    /\ rlog[i + 1] = [frame |-> frames[rlog[i].frame].parent, result |-> rlog[i].result]

\* Delivery i of the last step went to the TerminalFrame, which kept the
\* result and ended the run.
AbsorbedByTerminal(i) ==
    /\ i = Len(rlog)
    /\ status = "done"
    /\ top = rlog[i].frame
    /\ frames[top].kind = "TerminalFrame"
    /\ frames[top].result = rlog[i].result

RECURSIVE SpineSeq(_, _, _)
SpineSeq(fs, f, fuel) ==
    IF f = 0 \/ fuel = 0 THEN <<>>
    ELSE <<f>> \o SpineSeq(fs, fs[f].parent, fuel - 1)

TopSpine == SpineSeq(frames, top, Len(frames) + 1)

\* The frames reachable from the top frame through parent.
LiveFrames == {TopSpine[i] : i \in 1..Len(TopSpine)}

\* The frames allocated by the step being taken.
FreshFrames == (Len(frames) + 1)..Len(frames')

\* The frames captured by the continuation objects bound in the scopes.
CapturedFrames ==
    {scopes[s].dict[nm].val.n :
        <<s, nm>> \in {p \in (1..Len(scopes)) \X Names :
                          /\ scopes[p[1]].dict[p[2]].kind = "slot"
                          /\ isContObject(scopes[p[1]].dict[p[2]].val)}}

C4_SpineReachesTerminal ==
    /\ Len(TopSpine) \in 1..Len(frames)
    /\ frames[TopSpine[Len(TopSpine)]].kind = "TerminalFrame"
    /\ \A i, j \in 1..Len(TopSpine) : i # j => TopSpine[i] # TopSpine[j]
    /\ \A f \in 1..Len(frames) : frames[f].parent = 0 <=> frames[f].kind = "TerminalFrame"

\* The top frame sits below the EntryFrame of a scripted call that a native
\* handler handed back in a Continue, eight or more frames deep.
C4_Witness ==
    /\ status = "running"
    /\ Len(TopSpine) >= 8
    /\ \E i \in 1..Len(TopSpine) : TopSpine[i] > 2 /\ frames[TopSpine[i]].kind = "EntryFrame"

\* C5 as stated: no step leaves the top frame, its internal state and the
\* scopes all unchanged.
C5_EveryStepChanges ==
    [][Step => (top' # top \/ frames'[top] # frames[top] \/ scopes' # scopes)]_vars

\* C5 amended: every step that returns a Continue makes another frame the
\* top frame: one it has allocated (a new state of the frame, or a child),
\* or an ancestor of the old top frame (resolve and pop).
C5_ContinueStepChanges ==
    [][(Step /\ status' \in {"running", "done"}) =>
            /\ top' # top
            /\ top' \in FreshFrames \cup LiveFrames]_vars

\* A step resolved the parent of the top frame, which went on in a new
\* frame of its own.
C5_Witness ==
    /\ status = "running"
    /\ rlog # <<>>
    /\ top = Len(frames)
    /\ frames[top].kind \in {"FileSyntaxFrame", "BlockSyntaxFrame", "VarSyntaxFrame", "CallExprSyntaxFrame"}

\* The scope the top frame evaluates under.
TopScope == frames[frames[top].entryFrame].scope

HostOperative == MakeMethod(NativeFunction("Host_Handler", TRUE))

\* C7: once "@NameExpr" is bound on a scope to an operative of the host, the
\* binding stays, and every step that evaluates a NameExpr node under that
\* scope invokes that operative with the node as its one argument, and no
\* other handler; only a failed allocation ends the step before the call.
C7_ReboundHandlerInvoked ==
    [][/\ \A s \in 1..Len(scopes) :
            scopes[s].dict["@NameExpr"] = HostOperative
                => scopes'[s].dict["@NameExpr"] = HostOperative
       /\ (/\ StepInvokeSyntaxNodeFrame
           /\ nodeType(frames[top].syntaxNode) = "NameExpr"
           /\ scopes[TopScope].dict["@NameExpr"] = HostOperative)
          => /\ \A i \in 1..Len(calls') : calls'[i].impl = "Host_Handler"
             /\ ~failed' =>
                    calls' = <<[impl |-> "Host_Handler", frame |-> top,
                                args |-> <<frames[top].syntaxNode>>]>>]_vars

\* The operative bound on the activation scope of a scripted call, and not
\* on the global scope, was invoked for a NameExpr of the function body.
C7_Witness ==
    /\ Len(calls) = 1
    /\ calls[1].impl = "Host_Handler"
    /\ nodeType(calls[1].args[1]) = "NameExpr"
    /\ frames[frames[calls[1].frame].entryFrame].scope > 1
    /\ scopes[1].dict["@NameExpr"] # HostOperative

\* The file the run interprets, and what the embedder bound to "@retcont".
RootNode == frames[2].syntaxNode

Retcont == scopes[1].dict["@retcont"]

\* No scope has its "@NameExpr" handler replaced by the host.
DefaultNameExpr == \A s \in 1..Len(scopes) : scopes[s].dict["@NameExpr"] # HostOperative

\* C9 as stated: a return inside a scripted function makes the call yield
\* the returned value, with nothing bound to "@retcont" by the embedder: a
\* run of `def f(x) { return x + 1 } f(41)` that ends without a failed
\* allocation ends with Value(42), and so does a run of `g(4, 5)`, with g
\* defined as `def g(a, b) { a; return b }`, with Value(5).
C9_ReturnYieldsCallValue ==
    (/\ status \in {"done", "halted"}
     /\ ~failed
     /\ Retcont = NoDesc
     /\ DefaultNameExpr
     /\ RootNode \in {16, 49})
        => /\ status = "done"
           /\ frames[1].result = EvalValue(Integer(IF RootNode = 16 THEN 42 ELSE 5))

\* The message of the Exc a return with a value raises for what is bound to
\* "@retcont", "" when that is a continuation.
RetcontFailure(desc) ==
    IF desc.kind = "none" THEN "return used in non-returnable context."
    ELSE IF desc.val.t \in {"undef", "int"} THEN "@retcont contains a non-object value."
    ELSE IF desc.val.t # "cont" THEN "@retcont contains a non-continuation object."
    ELSE ""

\* C10: a ReturnStmtSyntaxFrame that is resolved with a value while
\* "@retcont" is not found, holds a non-object value or holds an object
\* that is no continuation resolves its parent with an Exc it raises
\* itself, with a message of its own for each of the three (only a failed
\* allocation prevents that), and a run of `return 7` as a whole file with
\* no "@retcont" ends with Exc("return used in non-returnable context.").
C10_ReturnWithoutContinuation ==
    /\ \A i \in 1..Len(rlog) :
          LET f == rlog[i].frame
              msg == RetcontFailure(LookupProperty(scopes, frames[frames[f].entryFrame].scope, "@retcont"))
          IN  (/\ frames[f].kind = "ReturnStmtSyntaxFrame"
               /\ rlog[i].result.k = "Value"
               /\ msg # ""
               /\ ~failed)
                  => /\ i < Len(rlog)
                     /\ rlog[i + 1].frame = frames[f].parent
                     /\ rlog[i + 1].result.k = "Exc"
                     /\ rlog[i + 1].result.frame = f
                     /\ rlog[i + 1].result.msg = msg
    /\ (RootNode = 6 /\ Retcont = NoDesc /\ status # "running" /\ ~failed)
          => /\ status = "done"
             /\ frames[1].result.k = "Exc"
             /\ frames[1].result.msg = "return used in non-returnable context."

\* `return 7` at top level, nothing bound to "@retcont": the run has ended
\* with the Exc.
C10_Witness ==
    /\ RootNode = 6
    /\ Retcont = NoDesc
    /\ status = "done"
    /\ Len(rlog) >= 3
    /\ rlog[1].result = EvalValue(Integer(7))
    /\ frames[1].result.msg = "return used in non-returnable context."

C6_NoEvaluationInsideNative ==
    \A i \in 1..Len(native) :
        native[i].waiting => native[i].fn = "InterpretSourceFile"

\* The run has ended, no allocation failed in it, and every "@NameExpr"
\* handler is the default one.
EndedDefault == status \in {"done", "halted"} /\ ~failed /\ DefaultNameExpr

\* C11 as stated: a run of `var a = nonexistent()` with nonexistent not
\* bound ends with Exc("Callee expression is not callable", Undefined).
C11_CalleeNotCallable ==
    (RootNode = 12 /\ EndedDefault)
        => /\ status = "done"
           /\ frames[1].result.k = "Exc"
           /\ frames[1].result.msg = "Callee expression is not callable"
           /\ frames[1].result.arg = Undefined

\* C11 amended: a run of `var a = nonexistent()` with nonexistent not bound
\* ends with the Exc("Name not found", "nonexistent") that the evaluation of
\* the callee raises.
C11_CalleeNameNotFound ==
    (RootNode = 12 /\ EndedDefault)
        => /\ status = "done"
           /\ frames[1].result.k = "Exc"
           /\ frames[1].result.msg = "Name not found"
           /\ frames[1].result.arg = StringVal("nonexistent")

\* `var a = nonexistent()` has run to its end: the Exc went from the callee
\* through the CallExprSyntaxFrame and the VarSyntaxFrame.
C11_Witness ==
    /\ RootNode = 12
    /\ EndedDefault
    /\ frames[1].result.k = "Exc"
    /\ \E i \in 1..Len(rlog) : frames[rlog[i].frame].kind = "CallExprSyntaxFrame"
    /\ \E i \in 1..Len(rlog) : frames[rlog[i].frame].kind = "VarSyntaxFrame"

\* C12: a step that hands an Error or an Exc to a VarSyntaxFrame leaves the
\* binding the frame is at, and every later binding of the statement, as
\* they were on the scope of the frame, and hands the same result on to the
\* parent of the frame; a run of `var a = nonexistent()` ends with no
\* binding for a.
C12_FailedInitializerBindsNothing ==
    /\ [][Step =>
            \A i \in 1..Len(rlog') :
                LET f == rlog'[i].frame
                    node == frames'[f].syntaxNode
                    scope == frames'[frames'[f].entryFrame].scope
                IN  (/\ frames'[f].kind = "VarSyntaxFrame"
                     /\ rlog'[i].result.k \in {"Error", "Exc"})
                        => /\ \A j \in frames'[f].no .. (numBindings(node) - 1) :
                                scopes'[scope].dict[varnameCid(node, j)]
                                    = scopes[scope].dict[varnameCid(node, j)]
                           /\ i < Len(rlog')
                           /\ rlog'[i + 1] = [frame |-> frames'[f].parent,
                                              result |-> rlog'[i].result]]_vars
    /\ []((RootNode = 12 /\ EndedDefault) => scopes[1].dict["a"] = NoDesc)

\* In `var a, b = 2, c` the evaluation of the initializer of b failed: the
\* Error went through the VarSyntaxFrame, a is bound, b and c are not.
C12_Witness ==
    /\ RootNode = 34
    /\ status = "done"
    /\ frames[1].result = EvalError
    /\ \E i \in 1..Len(rlog) : /\ frames[rlog[i].frame].kind = "VarSyntaxFrame"
                                /\ frames[rlog[i].frame].syntaxNode = 35
    /\ scopes[1].dict["a"] # NoDesc
    /\ scopes[1].dict["b"] = NoDesc
    /\ scopes[1].dict["c"] = NoDesc

\* C13 as stated: a run of `var x = 3; x` with the default handlers ends
\* with Value(3) in the TerminalFrame.
C13_FileYieldsLastValue ==
    (RootNode = 1 /\ EndedDefault)
        => /\ status = "done"
           /\ frames[1].result = EvalValue(Integer(3))

\* C13 amended: a run of `var x = 3; x` with the default handlers ends with
\* Value(Undefined) in the TerminalFrame: the file resolves with undefined
\* once its statements are done, whatever the last statement yielded.
C13_FileYieldsUndefined ==
    (RootNode = 1 /\ EndedDefault)
        => /\ status = "done"
           /\ frames[1].result = UndefinedValue

\* `var x = 3; x` has run to its end: x is bound to 3 and the
\* FileSyntaxFrame past the last statement resolved its parent, the EntryFrame
\* and the TerminalFrame in turn.
C13_Witness ==
    /\ RootNode = 1
    /\ EndedDefault
    /\ status = "done"
    /\ scopes[1].dict["x"] = MakeSlot(Integer(3), TRUE)
    /\ Len(rlog) = 3
    /\ rlog[2].frame = 2
    /\ frames[1].result.k = "Value"

\* ------------------------------------------------------------------------
\* The traced heap: frame formats, Scan/Update and the minor collection
\* ------------------------------------------------------------------------

\* WHISPER_DEFN_FRAME_KINDS
FrameKinds ==
    {"TerminalFrame", "EntryFrame", "InvokeSyntaxNodeFrame", "FileSyntaxFrame",
     "BlockSyntaxFrame", "ReturnStmtSyntaxFrame", "VarSyntaxFrame",
     "CallExprSyntaxFrame", "InvokeApplicativeFrame", "InvokeOperativeFrame",
     "DotExprSyntaxFrame", "NativeCallResumeFrame"}

\* The frame kinds that derive from SyntaxFrame.
SyntaxFrameKinds ==
    {"InvokeSyntaxNodeFrame", "FileSyntaxFrame", "BlockSyntaxFrame",
     "ReturnStmtSyntaxFrame", "VarSyntaxFrame", "CallExprSyntaxFrame",
     "DotExprSyntaxFrame"}

\* The HeapField members each class declares, inherited ones included.
HeapFields(format) ==
    (IF format \in FrameKinds THEN {"parent_"} ELSE {})
    \cup (IF format = "TerminalFrame" THEN {"result_"} ELSE {})
    \cup (IF format = "EntryFrame" THEN {"syntaxNode_", "scope_"} ELSE {})
    \cup (IF format \in SyntaxFrameKinds THEN {"entryFrame_", "syntaxNode_"} ELSE {})
    \cup (IF format = "CallExprSyntaxFrame" THEN {"callee_", "calleeFunc_", "operands_"} ELSE {})
    \cup (IF format = "InvokeApplicativeFrame" THEN {"callee_", "calleeFunc_", "operands_"} ELSE {})
    \cup (IF format = "InvokeOperativeFrame" THEN {"callee_", "calleeFunc_", "syntaxNode_"} ELSE {})
    \cup (IF format = "NativeCallResumeFrame"
          THEN {"lookupState_", "callerScope_", "calleeFunc_", "receiver_",
                "evalScope_", "syntaxNode_", "resumeState_"}
          ELSE {})

\* TraceTraits<T>::Scan: the fields the callback hands to the scanner.
TraceTraits_Scan(format) ==
    (IF format \in FrameKinds THEN {"parent_"} ELSE {})
    \cup (IF format = "TerminalFrame" THEN {"result_"} ELSE {})
    \cup (IF format = "EntryFrame" THEN {"syntaxNode_", "scope_"} ELSE {})
    \cup (IF format \in SyntaxFrameKinds THEN {"entryFrame_", "syntaxNode_"} ELSE {})
    \cup (IF format = "CallExprSyntaxFrame" THEN {"callee_", "operands_"} ELSE {})
    \cup (IF format = "InvokeApplicativeFrame" THEN {"callee_", "calleeFunc_", "operands_"} ELSE {})
    \cup (IF format = "InvokeOperativeFrame" THEN {"callee_", "calleeFunc_", "syntaxNode_"} ELSE {})
    \cup (IF format = "NativeCallResumeFrame"
          THEN {"lookupState_", "callerScope_", "calleeFunc_", "receiver_",
                "evalScope_", "syntaxNode_", "resumeState_"}
          ELSE {})

\* TraceTraits<T>::Update: the fields the callback hands to the updater.
TraceTraits_Update(format) ==
    (IF format \in FrameKinds THEN {"parent_"} ELSE {})
    \cup (IF format = "TerminalFrame" THEN {"result_"} ELSE {})
    \cup (IF format = "EntryFrame" THEN {"syntaxNode_", "scope_"} ELSE {})
    \cup (IF format \in SyntaxFrameKinds THEN {"entryFrame_", "syntaxNode_"} ELSE {})
    \cup (IF format = "CallExprSyntaxFrame" THEN {"callee_", "operands_"} ELSE {})
    \cup (IF format = "InvokeApplicativeFrame" THEN {"callee_", "calleeFunc_", "operands_"} ELSE {})
    \cup (IF format = "InvokeOperativeFrame" THEN {"callee_", "calleeFunc_", "syntaxNode_"} ELSE {})
    \cup (IF format = "NativeCallResumeFrame"
          THEN {"lookupState_", "callerScope_", "calleeFunc_", "receiver_",
                "evalScope_", "syntaxNode_", "resumeState_"}
          ELSE {})

\* The formats the allocations of a run draw from: frames of each field
\* layout, and the function object a callee value and a callee function
\* field point at.
AllocFormats ==
    {"TerminalFrame", "EntryFrame", "FileSyntaxFrame", "CallExprSyntaxFrame",
     "InvokeApplicativeFrame", "FunctionObject"}

\* The addresses handed out so far.
Allocated == {a \in 1..MaxAddr : heap[a].gen # "Unused"}

\* The objects a pointer may legitimately name.
Valid(h) == {a \in 1..MaxAddr : h[a].gen \in {"Hatchery", "Nursery"}}

\* The bump allocator: the next address never handed out.
AllocAddr == Cardinality(Allocated) + 1

\* Frame constructors: the parent is the frame on top, and every other heap
\* field is initialised from the constructor's argument.
NewThing(format, parentThing, initThing) ==
    [format |-> format, gen |-> "Hatchery", to |-> 0,
     fields |-> [f \in FieldNames |->
                    IF f \notin HeapFields(format) THEN 0
                    ELSE IF f = "parent_" THEN parentThing ELSE initThing]]

\* Frame::Create / FunctionObject::Create: allocate in the hatchery from
\* rooted handles; a new frame becomes the top frame.
Allocate ==
    /\ AllocAddr <= MaxAddr
    /\ \E format \in AllocFormats, initThing \in {0, hroot, hlocal} :
          /\ heap' = [heap EXCEPT ![AllocAddr] = NewThing(format, hroot, initThing)]
          /\ hroot' = IF format \in FrameKinds THEN AllocAddr ELSE hroot
          /\ hlocal' = AllocAddr
    /\ UNCHANGED <<dirty, frames, scopes, top, status, rlog, calls, failed, native, flow, valvars, slabvars>>

\* What the scanner is handed when it scans the object at address a.
ScanEdges(h, a) == {h[a].fields[f] : f \in TraceTraits_Scan(h[a].format)} \ {0}

\* The objects the marking of a minor collection reaches from a set of
\* addresses: hatchery objects are scanned, older ones only when their card
\* is dirty.
RECURSIVE Marked(_, _, _)
Marked(h, cards, seen) ==
    LET next == UNION {ScanEdges(h, a) : a \in {b \in seen : h[b].gen = "Hatchery" \/ b \in cards}}
    IN IF next \subseteq seen THEN seen ELSE Marked(h, cards, seen \cup next)

\* The address a survivor is copied to: survivors keep their order.
CopyAddr(h, survivors, a) ==
    Cardinality({b \in 1..MaxAddr : h[b].gen # "Unused"}) + Cardinality({b \in survivors : b <= a})

\* The updater: a slot naming a survivor is rewritten to the copy's address.
Forward(h, survivors, slot) ==
    IF slot \in survivors THEN CopyAddr(h, survivors, slot) ELSE slot

\* TraceTraits<T>::Update applied to one object.
UpdateThing(h, survivors, thing) ==
    [thing EXCEPT !.fields =
        [f \in FieldNames |->
            IF f \in TraceTraits_Update(thing.format)
            THEN Forward(h, survivors, thing.fields[f])
            ELSE thing.fields[f]]]

\* A minor collection: the hatchery objects marked from the rooted handles
\* and the dirty cards are copied to the nursery and leave a forwarding
\* pointer behind, every other hatchery object is freed, and Update rewrites
\* the copies, the objects of the dirty cards and the rooted handles.
MinorCollect(h, cards, roots) ==
    LET marked == Marked(h, cards, (roots \cup cards) \ {0})
        survivors == {a \in marked : h[a].gen = "Hatchery"}
    IN [a \in 1..MaxAddr |->
          IF \E s \in survivors : CopyAddr(h, survivors, s) = a
          THEN LET s == CHOOSE s \in survivors : CopyAddr(h, survivors, s) = a
               IN [UpdateThing(h, survivors, h[s]) EXCEPT !.gen = "Nursery"]
          ELSE IF a \in survivors
          THEN [h[a] EXCEPT !.gen = "Forwarded", !.to = CopyAddr(h, survivors, a)]
          ELSE IF h[a].gen = "Hatchery"
          THEN [h[a] EXCEPT !.gen = "Free"]
          ELSE IF a \in cards
          THEN UpdateThing(h, survivors, h[a])
          ELSE h[a]]

\* The survivors of a minor collection of the current heap.
Survivors ==
    {a \in Marked(heap, dirty, ({hroot, hlocal} \cup dirty) \ {0}) : heap[a].gen = "Hatchery"}

\* Between two frame steps the collector runs a minor collection.
Collect ==
    /\ \E a \in 1..MaxAddr : heap[a].gen = "Hatchery"
    /\ Cardinality(Allocated) + Cardinality(Survivors) <= MaxAddr
    /\ heap' = MinorCollect(heap, dirty, {hroot, hlocal})
    /\ hroot' = Forward(heap, Survivors, hroot)
    /\ hlocal' = Forward(heap, Survivors, hlocal)
    /\ dirty' = {}
    /\ UNCHANGED <<frames, scopes, top, status, rlog, calls, failed, native, flow, valvars, slabvars>>

\* The mutator drops its handle on the object allocated last.
DropLocal ==
    /\ hlocal # 0
    /\ hlocal' = 0
    /\ UNCHANGED <<heap, hroot, dirty, frames, scopes, top, status, rlog, calls, failed, native, flow, valvars, slabvars>>

\* The frame machine rests while the heap is exercised.
MachineIdle ==
    /\ frames = <<TerminalFrame>>
    /\ scopes = <<>>
    /\ top = 1
    /\ status = "done"
    /\ rlog = <<>>
    /\ calls = <<>>
    /\ failed = FALSE
    /\ native = <<>>
    /\ flow = EvalVoid

InitGC == MachineIdle /\ MemIdle /\ ValIdle

NextGC == Allocate \/ Collect \/ DropLocal

SpecGC == InitGC /\ [][NextGC]_vars

\* The objects the mutator can still get at: everything the rooted handles
\* lead to through heap fields.
RECURSIVE Live(_)
Live(seen) ==
    LET next == UNION {{heap[a].fields[f] : f \in HeapFields(heap[a].format)} \ {0} :
                         a \in {b \in seen : heap[b].gen \in {"Hatchery", "Nursery"}}}
    IN IF next \subseteq seen THEN seen ELSE Live(seen \cup next)

LiveThings == {a \in Live({hroot, hlocal} \ {0}) : heap[a].gen \in {"Hatchery", "Nursery"}}

\* C14: Scan enumerates and Update rewrites every heap-valued field of every
\* frame format, and so no heap field of a live object points at an address
\* the collector has forwarded.
C14_NoForwardedField ==
    \A a \in LiveThings : \A f \in HeapFields(heap[a].format) :
        heap[a].fields[f] # 0 => heap[heap[a].fields[f]].gen # "Forwarded"

\* failing run: a FunctionObject and a CallExprSyntaxFrame whose callee_ and
\* calleeFunc_ name it are allocated, then a minor collection copies both:
\* callee_ names the copy, calleeFunc_ still names the forwarded original.

\* ------------------------------------------------------------------------
\* Stores into allocated objects
\* ------------------------------------------------------------------------

\* HeapHolder<T>::set(ref, container): the store, and no card is recorded.
HeapHolder_set(m, container, field, ref) ==
    [things |-> [m.things EXCEPT ![container].fields[field] = ref], cards |-> m.cards]

\* The result_.set of TerminalFrame::ResolveImpl: the terminal frame below the top frame stores
\* the result it is handed, a value that may name the object allocated last,
\* and is continued.
StoreResult ==
    /\ hroot # 0
    /\ \E frame \in Valid(heap), result \in {0, hlocal} :
          /\ heap[frame].format = "TerminalFrame"
          /\ frame = hroot \/ heap[hroot].fields["parent_"] = frame
          /\ LET m == HeapHolder_set([things |-> heap, cards |-> dirty], frame, "result_", result)
             IN /\ heap' = m.things
                /\ dirty' = m.cards
          /\ hroot' = frame
    /\ UNCHANGED <<hlocal, frames, scopes, top, status, rlog, calls, failed, native, flow, valvars, slabvars>>

NextBarrier == NextGC \/ StoreResult

SpecBarrier == InitGC /\ [][NextBarrier]_vars

\* C15: whenever a minor collection may start, every reference from an
\* object outside the hatchery to an object in the hatchery sits in a card
\* that is marked dirty.
C15_OldToYoungInDirtyCard ==
    \A a \in Valid(heap) : \A f \in HeapFields(heap[a].format) :
        (/\ heap[a].gen = "Nursery"
         /\ heap[a].fields[f] # 0
         /\ heap[heap[a].fields[f]].gen = "Hatchery")
        => a \in dirty

\* failing run: a TerminalFrame is allocated and survives a minor
\* collection, a FunctionObject is allocated, and the frame is resolved with
\* it: the nursery frame names a hatchery object and no card is dirty.

\* ------------------------------------------------------------------------
\* The tagged Value word (value.hpp)
\* ------------------------------------------------------------------------

\* A uint64_t is kept as its eight bytes, most significant first: tagged_'s
\* tag is the high half of byte 1, its low 32 bits are bytes 5 to 8.

ValueTag ==
    [Object |-> 0, Null |-> 1, Undefined |-> 2, Boolean |-> 3, HeapString |-> 4,
     ImmString8 |-> 5, ImmString16 |-> 6, ImmDoubleLow |-> 7, ImmDoubleHigh |-> 8,
     ImmDoubleX |-> 9, HeapDouble |-> 10, UNUSED_B |-> 11, Int32 |-> 12,
     Magic |-> 13, UNUSED_E |-> 14, UNUSED_F |-> 15]

ImmString8MaxLength == 7

ImmString8LengthMaskLow == 7

\* UInt64(b): a small number as a 64-bit word.
UInt64(b) == <<0, 0, 0, 0, 0, 0, 0, b>>

\* UInt32(ival): the two's complement bits of an int32_t, zero-extended.
UInt32(ival) ==
    <<0, 0, 0, 0, (ival \div 16777216) % 256, (ival \div 65536) % 256,
      (ival \div 256) % 256, ival % 256>>

\* a < b on two 64-bit words
Below(a, b) ==
    \E i \in 1..8 : a[i] < b[i] /\ \A j \in 1..(i - 1) : a[j] = b[j]

\* RotateLeft(w, 1)
RotateLeft(w) ==
    [i \in 1..8 |-> ((w[i] * 2) % 256) + (w[IF i = 8 THEN 1 ELSE i + 1] \div 128)]

\* w << 8
ShiftLeft8(w) == [i \in 1..8 |-> IF i = 8 THEN 0 ELSE w[i + 1]]

\* Value::checkTag: (tagged_ >> TagShift) == ValueTagNumber(tag)
checkTag(w, tag) == (w[1] \div 16) = ValueTag[tag]

\* MakePtr without `ptrval &= ~TagMaskHigh`: the tag is or-ed onto the
\* pointer's top four bits (which are all clear or all set).
MakePtr_Unmasked(tag, ptr) ==
    [ptr EXCEPT ![1] = IF ptr[1] \div 16 = 15 THEN ptr[1] ELSE (ptr[1] % 16) + ValueTag[tag] * 16]

\* Value::MakePtr: the pointer's bits with the tag in place of the top four.
MakePtr(tag, ptr) == [ptr EXCEPT ![1] = (ptr[1] % 16) + ValueTag[tag] * 16]

\* Value::MakeTag: UInt64(tag) << TagShift
MakeTag(tag) == [UInt64(0) EXCEPT ![1] = ValueTag[tag] * 16]

\* Value::MakeTagValue: returns Value(UInt64(tag) << TagShift); ival is
\* only asserted on.
MakeTagValue(tag, ival) == [UInt64(0) EXCEPT ![1] = ValueTag[tag] * 16]

\* The thirteen checker methods isObject .. isMagic, by the tag they check.
Variants ==
    {"Object", "Null", "Undefined", "Boolean", "HeapString", "ImmString8",
     "ImmString16", "ImmDoubleLow", "ImmDoubleHigh", "ImmDoubleX", "HeapDouble",
     "Int32", "Magic"}

isInt32(w) == checkTag(w, "Int32")

isImmString8(w) == checkTag(w, "ImmString8")

\* Value::getInt32: static_cast<int32_t>(tagged_)
getInt32(w) ==
    (IF w[5] >= 128 THEN w[5] - 256 ELSE w[5]) * 16777216 + w[6] * 65536 + w[7] * 256 + w[8]

\* Value::immString8Length: (tagged_ >> ImmString8LengthShift) & ImmString8LengthMaskLow
immString8Length(w) == w[1] % (ImmString8LengthMaskLow + 1)

\* Value::readImmString8: buf[i] = (tagged_ >> (48 - 8 * i)) & 0xFF
readImmString8(w) == [i \in 1..immString8Length(w) |-> w[i + 1]]

\* The loop of String8Value: tagged <<= 8, and tagged |= data[i] while i < length.
RECURSIVE String8Bits(_, _, _)
String8Bits(word, i, data) ==
    IF i >= ImmString8MaxLength THEN word
    ELSE LET shifted == ShiftLeft8(word)
         IN String8Bits(IF i < Len(data) THEN [shifted EXCEPT ![8] = data[i + 1]] ELSE shifted,
                        i + 1, data)

String8Value(data) == MakeTagValue("ImmString8", String8Bits(UInt64(Len(data)), 0, data))

IntegerValue(ival) == MakeTagValue("Int32", UInt32(ival))

\* DoubleValue(double): the bits of the double rotated left by one.
DoubleValue(bits) == RotateLeft(bits)

ImmDoublePosMax == <<71, 255, 255, 255, 255, 255, 255, 255>>

ImmDoublePosMin == <<56, 0, 0, 0, 0, 0, 0, 0>>

ImmDoubleNegMax == <<184, 0, 0, 0, 0, 0, 0, 0>>

ImmDoubleNegMin == <<199, 255, 255, 255, 255, 255, 255, 255>>

\* The WH_ASSERTs of the constructors: what a caller must hand them.
Asserted(in) ==
    CASE in.ctor = "String8Value" -> Len(in.s) < ImmString8MaxLength
      [] in.ctor = "DoubleValue" ->
            \/ ~Below(ImmDoublePosMax, in.s) /\ ~Below(in.s, ImmDoublePosMin)
            \/ ~Below(ImmDoubleNegMax, in.s) /\ ~Below(in.s, ImmDoubleNegMin)
      [] in.ctor = "MagicValue" -> in.s[1] \div 16 = 0
      [] OTHER -> TRUE

\* The constructor functions at the end of value.hpp.
Construct(in) ==
    CASE in.ctor = "Value" -> UInt64(0)
      [] in.ctor = "NativeObjectValue" -> MakePtr("Object", in.s)
      [] in.ctor = "WeakNativeObjectValue" ->
            LET w == MakePtr("Object", in.s)
            IN [w EXCEPT ![1] = IF (w[1] \div 8) % 2 = 1 THEN w[1] ELSE w[1] + 8]
      [] in.ctor = "ForeignObjectValue" ->
            LET w == MakePtr("Object", in.s)
            IN [w EXCEPT ![1] = IF w[1] % 2 = 1 THEN w[1] ELSE w[1] + 1]
      [] in.ctor = "NullValue" -> MakeTag("Null")
      [] in.ctor = "UndefinedValue" -> MakeTag("Undefined")
      [] in.ctor = "BooleanValue" -> MakeTagValue("Boolean", UInt64(in.n))
      [] in.ctor = "StringValue" -> MakePtr("HeapString", in.s)
      [] in.ctor = "String8Value" -> String8Value(in.s)
      [] in.ctor = "HeapDoubleValue" -> MakePtr("HeapDouble", in.s)
      [] in.ctor = "NaNValue" -> MakeTagValue("ImmDoubleX", UInt64(1))
      [] in.ctor = "NegInfValue" -> MakeTagValue("ImmDoubleX", UInt64(3))
      [] in.ctor = "DoubleValue" -> DoubleValue(in.s)
      [] in.ctor = "MagicValue" -> MakeTagValue("Magic", in.s)
      [] in.ctor = "IntegerValue" -> IntegerValue(in.n)

\* The bytes strings are made of.
ByteSamples == {0, 97, 255}

\* The byte strings of at most n bytes.
RECURSIVE ByteStrings(_)
ByteStrings(n) ==
    IF n = 0 THEN {<<>>}
    ELSE LET shorter == ByteStrings(n - 1)
         IN shorter \cup {Append(s, b) : s \in shorter, b \in ByteSamples}

Int32Samples ==
    {-2147483647 - 1, -65536, -129, -1, 0, 1, 127, 255, 256, 65535, 2147483647}

\* Addresses of heap things, with and without address bits in the top byte.
PtrSamples ==
    {<<0, 0, 127, 255, 16, 32, 48, 64>>, <<255, 255, 128, 0, 0, 0, 16, 0>>,
     <<0, 0, 0, 0, 0, 0, 0, 8>>}

\* Bits of doubles: 0.0, 2^-127, 0.5, 1.0, 1.5, 2.0, the largest double
\* below 2^129, 2^129, 2^400, -1.0 and infinity.
DoubleSamples ==
    {<<0, 0, 0, 0, 0, 0, 0, 0>>, <<56, 0, 0, 0, 0, 0, 0, 0>>, <<63, 224, 0, 0, 0, 0, 0, 0>>,
     <<63, 240, 0, 0, 0, 0, 0, 0>>, <<63, 248, 0, 0, 0, 0, 0, 0>>, <<64, 0, 0, 0, 0, 0, 0, 0>>,
     <<71, 255, 255, 255, 255, 255, 255, 255>>, <<72, 0, 0, 0, 0, 0, 0, 0>>,
     <<88, 240, 0, 0, 0, 0, 0, 0>>, <<191, 240, 0, 0, 0, 0, 0, 0>>,
     <<127, 240, 0, 0, 0, 0, 0, 0>>}

MagicSamples == {UInt64(0), <<15, 255, 255, 255, 255, 255, 255, 255>>, <<16, 0, 0, 0, 0, 0, 0, 0>>}

\* What the constructors are called with.
Inputs ==
    {[ctor |-> c, n |-> 0, s |-> <<>>] : c \in {"Value", "NullValue", "UndefinedValue", "NaNValue", "NegInfValue"}}
    \cup {[ctor |-> "BooleanValue", n |-> b, s |-> <<>>] : b \in {0, 1}}
    \cup {[ctor |-> "IntegerValue", n |-> i, s |-> <<>>] : i \in Int32Samples}
    \cup {[ctor |-> "String8Value", n |-> 0, s |-> s] : s \in ByteStrings(ImmString8MaxLength)}
    \cup {[ctor |-> c, n |-> 0, s |-> ptr] :
            c \in {"NativeObjectValue", "WeakNativeObjectValue", "ForeignObjectValue",
                   "StringValue", "HeapDoubleValue"},
            ptr \in PtrSamples}
    \cup {[ctor |-> "DoubleValue", n |-> 0, s |-> d] : d \in DoubleSamples}
    \cup {[ctor |-> "MagicValue", n |-> 0, s |-> m] : m \in MagicSamples}

InitValue ==
    /\ MachineIdle
    /\ MemIdle
    /\ vin \in Inputs
    /\ tagged = <<>>
    /\ got = [k |-> "none", n |-> 0, s |-> <<>>]

\* A constructor is called with an argument its assertions accept.
ConstructValue ==
    /\ tagged = <<>>
    /\ Asserted(vin)
    /\ tagged' = Construct(vin)
    /\ UNCHANGED <<vin, got, memvars, frames, scopes, top, status, rlog, calls, failed, native, flow>>

\* v.getInt32() on an Int32 value
ReadInt32 ==
    /\ tagged # <<>>
    /\ got.k = "none"
    /\ isInt32(tagged)
    /\ got' = [k |-> "int32", n |-> getInt32(tagged), s |-> <<>>]
    /\ UNCHANGED <<vin, tagged, memvars, frames, scopes, top, status, rlog, calls, failed, native, flow>>

\* v.readImmString8(buf) on an ImmString8 value
ReadImmString8 ==
    /\ tagged # <<>>
    /\ got.k = "none"
    /\ isImmString8(tagged)
    /\ got' = [k |-> "string8", n |-> immString8Length(tagged), s |-> readImmString8(tagged)]
    /\ UNCHANGED <<vin, tagged, memvars, frames, scopes, top, status, rlog, calls, failed, native, flow>>

NextValue == ConstructValue \/ ReadInt32 \/ ReadImmString8

SpecValue == InitValue /\ [][NextValue]_vars

\* C16: every Value a constructor produces satisfies exactly one of the
\* thirteen variant predicates isObject .. isMagic.
C16_ExactlyOneVariant ==
    tagged # <<>> => Cardinality({x \in Variants : checkTag(tagged, x)}) = 1

\* The largest immediate double is boxed as an ImmDoubleHigh.
C16_Witness ==
    /\ vin.ctor = "DoubleValue"
    /\ vin.s = ImmDoublePosMax
    /\ tagged # <<>>
    /\ checkTag(tagged, "ImmDoubleHigh")

\* C17: the int32 read back from IntegerValue(n) is n.
C17_IntegerRoundTrip ==
    (vin.ctor = "IntegerValue" /\ got.k = "int32") => got.n = vin.n

\* failing run: IntegerValue(1) is the word 0xC000000000000000, whose
\* getInt32() is 0.

\* C18: the bytes read back from String8Value(s) are s.
C18_String8RoundTrip ==
    (vin.ctor = "String8Value" /\ got.k = "string8") => (got.n = Len(vin.s) /\ got.s = vin.s)

\* failing run: String8Value("a") is the word 0x5000000000000000, whose
\* immString8Length() is 0.

\* ------------------------------------------------------------------------
\* The frame machine with an arbitrary result for the TerminalFrame
\* ------------------------------------------------------------------------

\* The results a frame may be resolved with, one of each kind.
ResultKinds ==
    {EvalValue(Integer(3)), EvalVoid, EvalError, EvalExc(2, "Name not found", StringVal("y"))}

\* Frame::Resolve(cx, parent, r): the frame below which the TerminalFrame
\* waits hands it a result of any kind.
ResolveTerminal ==
    /\ status = "running"
    /\ frames[frames[top].parent].kind = "TerminalFrame"
    /\ \E r \in ResultKinds, ub \in {"benign", "crash"} :
          Trampoline(Resolve(Machine(0, ub), frames[top].parent, r))

NextTerminal == Next \/ ResolveTerminal

SpecTerminal == Init /\ [][NextTerminal]_vars

\* C19: a result of any kind handed to the Resolve of the TerminalFrame is
\* stored in result_ and the TerminalFrame is continued: it is the top
\* frame, it holds that result, and the loop is done; and the loop never
\* steps a TerminalFrame.
C19_TerminalResolveStores ==
    /\ \A i \in 1..Len(rlog) :
          frames[rlog[i].frame].kind = "TerminalFrame"
              => /\ i = Len(rlog)
                 /\ top = rlog[i].frame
                 /\ frames[top].result = rlog[i].result
                 /\ status = "done"
    /\ status = "running" => frames[top].kind # "TerminalFrame"

\* The TerminalFrame was resolved with Void and holds it.
C19_Witness ==
    /\ status = "done"
    /\ Len(rlog) = 1
    /\ frames[top].kind = "TerminalFrame"
    /\ rlog[1] = [frame |-> top, result |-> EvalVoid]
    /\ frames[top].result = EvalVoid

\* ------------------------------------------------------------------------
\* The frame machine with handler names bound to other things than operatives
\* ------------------------------------------------------------------------

\* What the embedder may bind to a handler name instead of an operative: a
\* number, and an applicative function.
BadHandlers ==
    {MakeSlot(Integer(0), TRUE), MakeMethod(NativeFunction("Host_Handler", FALSE))}

\* Between two steps the embedder binds the "@NameExpr" handler of a scope
\* to something that is not an operative.
HostBindHandler ==
    /\ status = "running"
    /\ \E s \in 1..Len(scopes), desc \in BadHandlers :
          /\ scopes[s].dict["@NameExpr"] \notin BadHandlers
          /\ scopes' = DefineProperty(Machine(0, "benign"), s, "@NameExpr", desc).m.scopes
    /\ rlog' = <<>>
    /\ calls' = <<>>
    /\ UNCHANGED <<frames, top, status, failed, native, flow, memvars, valvars>>

NextHandlers == Next \/ HostBindHandler

SpecHandlers == Init /\ [][NextHandlers]_vars

\* C20: when the handler name of the node is not bound on the scope of the
\* frame, or is bound to a value that is not a function, or to an
\* applicative function, the step of an InvokeSyntaxNodeFrame invokes
\* nothing and hands its parent an Exc raised by the frame itself -- for a
\* missing binding the Exc "Syntax method binding not found" with the
\* handler name; only a failed allocation ends the step otherwise.
C20_BadHandlerRaises ==
    [][(StepInvokeSyntaxNodeFrame /\ ~failed') =>
          LET name == syntaxHandlerName(frames[top].syntaxNode)
              desc == LookupProperty(scopes, TopScope, name)
              missing == desc.kind = "none"
              nonFunction == desc.kind = "slot" /\ desc.val.t # "funcobj"
              applicative ==
                  \/ desc.kind = "method" /\ ~desc.fn.operative
                  \/ desc.kind = "slot" /\ desc.val.t = "funcobj" /\ ~desc.val.fn.operative
          IN  (name # "" /\ (missing \/ nonFunction \/ applicative))
                  => /\ calls' = <<>>
                     /\ Len(rlog') >= 1
                     /\ rlog'[1].frame = frames[top].parent
                     /\ rlog'[1].result.k = "Exc"
                     /\ rlog'[1].result.frame = top
                     /\ missing => rlog'[1].result =
                                      EvalExc(top, "Syntax method binding not found", StringVal(name))
      ]_vars

\* The step of an InvokeSyntaxNodeFrame over a NameExpr whose handler is
\* bound to an applicative raised an Exc and invoked nothing.
C20_Witness ==
    /\ calls = <<>>
    /\ Len(rlog) >= 1
    /\ rlog[1].result.k = "Exc"
    /\ rlog[1].result.msg = "Function is not an operative."
    /\ frames[rlog[1].result.frame].kind = "InvokeSyntaxNodeFrame"
    /\ nodeType(frames[rlog[1].result.frame].syntaxNode) = "NameExpr"
    /\ rlog[1].frame = frames[rlog[1].result.frame].parent

\* ------------------------------------------------------------------------
\* Statement frames: the handler's CallResult, files, blocks, return, var
\* ------------------------------------------------------------------------

\* C21: the step of an InvokeSyntaxNodeFrame that has found its handler
\* forwards the CallResult of the handler: a Value, an Exc or an Error is
\* the first result the step delivers, and it goes to the parent of the
\* frame as it is; a Continue(f) delivers nothing to any frame and makes f,
\* the frame the handler allocated, the top frame.
C21_HandlerResultForwarded ==
    [][StepInvokeSyntaxNodeFrame =>
          \E fail \in 0..MaxAllocSite :
              LET fr == frames[top]
                  name == syntaxHandlerName(fr.syntaxNode)
                  g == GetObjectProperty(Machine(fail, "benign"), Object(TopScope), name)
                  i == InvokeOperativeValue(g.m, top, TopScope, g.r.v, <<fr.syntaxNode>>)
              IN  IF name = "" THEN calls' = <<>> /\ rlog' = <<>>
                  ELSE IF g.r.k # "Found" THEN calls' = <<>> /\ rlog' # <<>>
                  ELSE /\ Len(calls') >= Len(i.m.calls)
                       /\ SubSeq(calls', 1, Len(i.m.calls)) = i.m.calls
                       /\ i.cr.k \in {"Value", "Exc", "Error"} =>
                              /\ rlog' # <<>>
                              /\ rlog'[1] = [frame |-> fr.parent, result |-> i.cr]
                       /\ i.cr.k = "Continue" =>
                              /\ rlog' = <<>>
                              /\ frames' = i.m.frames
                              /\ top' = i.cr.frame
                              /\ status' = "running"]_vars

\* The "@File" handler was invoked and handed back a Continue: nothing was
\* resolved and the FileSyntaxFrame it allocated under the invoking frame is
\* the top frame.
C21_Witness ==
    /\ status = "running"
    /\ rlog = <<>>
    /\ Len(calls) = 1
    /\ calls[1].impl = "Lift_File"
    /\ top = Len(frames)
    /\ frames[top].kind = "FileSyntaxFrame"
    /\ frames[top].parent = calls[1].frame
    /\ frames[calls[1].frame].kind = "InvokeSyntaxNodeFrame"

\* The frames of kind k in the frame heap fs.
FramesOf(fs, k) == {f \in 1..Len(fs) : fs[f].kind = k}

\* The InvokeSyntaxNodeFrames that evaluate a sub-node for frame f.
EvalsOf(fs, f) == {c \in FramesOf(fs, "InvokeSyntaxNodeFrame") : fs[c].parent = f}

\* The frames that stand for the same statement list as frame f, at any
\* statement number: same kind, same parent, same node.
SameRun(fs, f) ==
    {x \in FramesOf(fs, fs[f].kind) :
        fs[x].parent = fs[f].parent /\ fs[x].syntaxNode = fs[f].syntaxNode}

\* The parent chain of the top frame after the step.
LiveFramesNext ==
    LET sp == SpineSeq(frames', top', Len(frames') + 1) IN {sp[i] : i \in 1..Len(sp)}

\* Statement k of the list of frame f is evaluated by at most one frame, the
\* frame that evaluates it is allocated after the one for statement k - 1,
\* and that one has evaluated its statement.
InIndexOrder(fs, f) ==
    LET fr == fs[f]
    IN  /\ fr.no \in 0..numStatements(fr.syntaxNode)
        /\ Cardinality(EvalsOf(fs, f)) <= 1
        /\ \A c \in EvalsOf(fs, f) :
              fr.no < numStatements(fr.syntaxNode)
                  /\ fs[c].syntaxNode = statement(fr.syntaxNode, fr.no)
        /\ \A x \in SameRun(fs, f) : fs[x].no = fr.no => x = f
        /\ fr.no > 0 =>
              \E x \in SameRun(fs, f) :
                  x < f /\ fs[x].no = fr.no - 1 /\ EvalsOf(fs, x) # {}

\* C22: a FileSyntaxFrame evaluates the statements of its file in index
\* order, each at most once; an Error or an Exc a statement resolves with
\* goes to the parent as it is, and the file is left for good; any other
\* result makes the frame for the next statement the top frame; the frame
\* past the last statement (the first one, for an empty file) resolves the
\* parent once, with undefined, and the file is left for good.
C22_FileStatementsInOrder ==
    /\ [](\A f \in FramesOf(frames, "FileSyntaxFrame") : InIndexOrder(frames, f))
    /\ [][Step =>
            \A i \in 1..Len(rlog') :
                LET f == rlog'[i].frame
                IN  frames'[f].kind = "FileSyntaxFrame" =>
                        IF rlog'[i].result.k \in {"Error", "Exc"}
                        THEN /\ i < Len(rlog')
                             /\ rlog'[i + 1] = [frame |-> frames'[f].parent,
                                                result |-> rlog'[i].result]
                             /\ SameRun(frames', f) \cap FreshFrames = {}
                             /\ SameRun(frames', f) \cap LiveFramesNext = {}
                        ELSE ~failed' =>
                                /\ top' \in FreshFrames
                                /\ frames'[top'] = [frames'[f] EXCEPT !.no = @ + 1]]_vars
    /\ [][(StepFileSyntaxFrame
            /\ frames[top].no = numStatements(frames[top].syntaxNode)) =>
                /\ rlog' # <<>>
                /\ rlog'[1] = [frame |-> frames[top].parent, result |-> UndefinedValue]
                /\ Cardinality({i \in 1..Len(rlog') : rlog'[i].frame = frames[top].parent}) = 1
                /\ SameRun(frames', top) \cap LiveFramesNext = {}]_vars

\* `var a, b = 2, c; const k = 5; (b)` has run to its end: there is one
\* FileSyntaxFrame for each of the statement numbers 0 to 3, and the
\* TerminalFrame holds undefined.
C22_Witness ==
    /\ RootNode = 34
    /\ status = "done"
    /\ {frames[f].no : f \in FramesOf(frames, "FileSyntaxFrame")} = 0..3
    /\ Cardinality(FramesOf(frames, "FileSyntaxFrame")) = 4
    /\ frames[1].result = UndefinedValue

\* C23: a BlockSyntaxFrame over a block that has statements evaluates them
\* in index order; the result of the last statement, and an Error or an Exc of any
\* statement, goes to the parent of the frame as it is; any other result of
\* an earlier statement goes to nobody, and the frame for the next
\* statement becomes the top frame.
C23_BlockYieldsLastResult ==
    /\ [](\A f \in FramesOf(frames, "BlockSyntaxFrame") :
              numStatements(frames[f].syntaxNode) >= 1 =>
                  /\ InIndexOrder(frames, f)
                  /\ frames[f].no < numStatements(frames[f].syntaxNode))
    /\ [][Step =>
            \A i \in 1..Len(rlog') :
                LET f == rlog'[i].frame
                    last == frames'[f].no + 1 = numStatements(frames'[f].syntaxNode)
                IN  (frames'[f].kind = "BlockSyntaxFrame"
                        /\ numStatements(frames'[f].syntaxNode) >= 1) =>
                        IF last \/ rlog'[i].result.k \in {"Error", "Exc"}
                        THEN /\ i < Len(rlog')
                             /\ rlog'[i + 1] = [frame |-> frames'[f].parent,
                                                result |-> rlog'[i].result]
                        ELSE /\ i = Len(rlog')
                             /\ ~failed' =>
                                   /\ top' \in FreshFrames
                                   /\ frames'[top'] = [frames'[f] EXCEPT !.no = @ + 1]]_vars

\* In `m(4, 5)`, with m defined as `def m(a, b) { a; b }`, the second
\* statement of the body resolved with 5: the 4 of the first statement went
\* nowhere, the 5 went on to the EntryFrame of the call.
C23_Witness ==
    /\ RootNode = 91
    /\ \E i \in 1..Len(rlog) :
          /\ frames[rlog[i].frame].kind = "BlockSyntaxFrame"
          /\ frames[rlog[i].frame].no = 1
          /\ rlog[i].result = EvalValue(Integer(5))
          /\ i < Len(rlog)
          /\ rlog[i + 1].result = EvalValue(Integer(5))
          /\ frames[rlog[i + 1].frame].kind = "EntryFrame"
          /\ scopes[frames[rlog[i + 1].frame].scope].dict["a"] = MakeSlot(Integer(4), TRUE)

\* The frames a jump from frame f to the captured frame c leaves behind:
\* the parent chain of f up to, and without, the chain of c.
Abandoned(fs, f, c) ==
    LET sf == SpineSeq(fs, f, Len(fs) + 1)
        sc == SpineSeq(fs, c, Len(fs) + 1)
    IN  {sf[i] : i \in 1..Len(sf)} \ {sc[i] : i \in 1..Len(sc)}

\* Delivery i of the step being taken hands a value to a
\* ReturnStmtSyntaxFrame whose scope has a continuation under "@retcont".
ReturnsToContinuation(i) ==
    LET f == rlog'[i].frame
        desc == LookupProperty(scopes, frames'[frames'[f].entryFrame].scope, "@retcont")
    IN  /\ frames'[f].kind = "ReturnStmtSyntaxFrame"
        /\ rlog'[i].result.k = "Value"
        /\ desc.kind = "slot"
        /\ isContObject(desc.val)
        /\ ~failed'

\* The frame that continuation has captured.
ReturnTarget(i) ==
    LookupProperty(scopes, frames'[frames'[rlog'[i].frame].entryFrame].scope, "@retcont").val.n

\* C24 as stated: a return that finds a continuation under "@retcont" hands
\* the value to the captured frame and makes the captured frame the top
\* frame; none of the frames between the return and the captured frame is
\* resolved.
C24_CapturedFrameBecomesTop ==
    [][Step =>
          \A i \in 1..Len(rlog') :
              ReturnsToContinuation(i) =>
                  /\ i < Len(rlog')
                  /\ rlog'[i + 1] = [frame |-> ReturnTarget(i), result |-> rlog'[i].result]
                  /\ top' = ReturnTarget(i)
                  /\ \A j \in (i + 1)..Len(rlog') :
                        rlog'[j].frame \notin Abandoned(frames', rlog'[i].frame, ReturnTarget(i))]_vars

\* C24 amended: a return that finds a continuation under "@retcont" resolves
\* the captured frame with the value; the captured frame hands it on as its
\* Resolve says, so the next top frame is on the parent chain of the
\* captured frame or allocated by the step; none of the frames between the
\* return and the captured frame is resolved in the step or is on the
\* parent chain of the next top frame, and no step resolves or continues a
\* frame off the parent chain of its top frame.
C24_CapturedFrameResolved ==
    /\ [][Step =>
            \A i \in 1..Len(rlog') :
                ReturnsToContinuation(i) =>
                    LET c == ReturnTarget(i)
                        left == Abandoned(frames', rlog'[i].frame, c)
                    IN  /\ i < Len(rlog')
                        /\ rlog'[i + 1] = [frame |-> c, result |-> EvalValue(rlog'[i].result.v)]
                        /\ \A j \in (i + 1)..Len(rlog') : rlog'[j].frame \notin left
                        /\ left \cap LiveFramesNext = {}
                        /\ top' \in FreshFrames \cup (LiveFrames \ left)]_vars
    /\ [][Step =>
            /\ top' \in LiveFrames \cup FreshFrames
            /\ \A i \in 1..Len(rlog') : rlog'[i].frame \in LiveFrames \cup FreshFrames]_vars

\* `g(4, 5)` with a continuation of the file's EntryFrame under "@retcont":
\* `return b` resolved the EntryFrame with 5, which went on to the
\* TerminalFrame; the frames of the call were left behind.
C24_Witness ==
    /\ RootNode = 49
    /\ status = "done"
    /\ top = 1
    /\ Len(rlog) = 3
    /\ frames[rlog[1].frame].kind = "ReturnStmtSyntaxFrame"
    /\ rlog[1].result = EvalValue(Integer(5))
    /\ rlog[2] = [frame |-> 2, result |-> EvalValue(Integer(5))]
    /\ Retcont = MakeSlot(ContObject(2), TRUE)
    /\ \E f \in Abandoned(frames, rlog[1].frame, 2) : frames[f].kind = "InvokeApplicativeFrame"
    /\ \E f \in Abandoned(frames, rlog[1].frame, 2) : frames[f].kind = "BlockSyntaxFrame"

\* The value of the initializer of binding j of the statement node, the
\* initializer being a number.
LiteralValue(node, j) == Integer(intValue(varexpr(node, j)))

\* The VarSyntaxFrame f finishes its statement in the step being taken: it
\* hands a value to its parent, from its Resolve or from its Step.
VarCompletes(f) ==
    \/ \E i \in 1..Len(rlog') :
          /\ rlog'[i].frame = f
          /\ rlog'[i].result.k = "Value"
          /\ i < Len(rlog')
          /\ rlog'[i + 1].frame = frames'[f].parent
    \/ /\ f = top
       /\ rlog' # <<>>
       /\ rlog'[1].frame = frames[top].parent
       /\ rlog'[1].result.k = "Value"

\* The frames that evaluate the initializer of binding j for the statement
\* of frame f.
InitializerEvals(fs, f, j) ==
    {c \in FramesOf(fs, "InvokeSyntaxNodeFrame") :
        /\ fs[c].parent \in SameRun(fs, f)
        /\ fs[c].syntaxNode = varexpr(fs[f].syntaxNode, j)}

\* C25 as stated: when a var or const statement completes, every name with
\* an initializer is bound on the scope of the EntryFrame to the value of its
\* initializer, writable for var and not for const, every name of a var
\* without initializer is bound to undefined, and every initializer has
\* been evaluated once.
C25_EveryNameBound ==
    [][Step =>
          \A f \in FramesOf(frames', "VarSyntaxFrame") :
              VarCompletes(f) =>
                  LET node == frames'[f].syntaxNode
                      scope == frames'[frames'[f].entryFrame].scope
                  IN  \A j \in 0..(numBindings(node) - 1) :
                          IF hasVarexpr(node, j)
                          THEN /\ scopes'[scope].dict[varnameCid(node, j)]
                                    = MakeSlot(LiteralValue(node, j), ~frames'[f].isConst)
                               /\ Cardinality(InitializerEvals(frames', f, j)) = 1
                          ELSE scopes'[scope].dict[varnameCid(node, j)]
                                    = MakeSlot(Undefined, TRUE)]_vars

\* C26 as stated: the value a VarSyntaxFrame hands to its parent when its
\* statement is done is the value bound to the last binding, and undefined
\* when the last binding has no initializer.
C26_VarYieldsLastBinding ==
    [][Step =>
          \A f \in FramesOf(frames', "VarSyntaxFrame") :
              LET node == frames'[f].syntaxNode
                  scope == frames'[frames'[f].entryFrame].scope
                  lastNo == numBindings(node) - 1
                  expected ==
                      EvalValue(IF hasVarexpr(node, lastNo)
                                THEN scopes'[scope].dict[varnameCid(node, lastNo)].val
                                ELSE Undefined)
              IN  /\ \A i \in 1..Len(rlog') :
                        (/\ rlog'[i].frame = f
                         /\ rlog'[i].result.k = "Value"
                         /\ i < Len(rlog')
                         /\ rlog'[i + 1].frame = frames'[f].parent)
                            => rlog'[i + 1].result = expected
                  /\ (/\ f = top
                      /\ rlog' # <<>>
                      /\ rlog'[1].frame = frames[top].parent
                      /\ rlog'[1].result.k = "Value")
                         => rlog'[1].result = expected]_vars

\* ------------------------------------------------------------------------
\* Call expressions
\* ------------------------------------------------------------------------

\* C27: a value c handed to a CallExprSyntaxFrame in state Callee has one of
\* four outcomes, a failed allocation aside: c is no function object and
\* the parent gets Exc("Callee expression is not callable", c), raised by
\* the frame; c is operative, or applicative in a call without arguments,
\* and the frame goes on in state Invoke without operands; otherwise it
\* goes on in state Arg at argument 0 with no operand yet.  The successor
\* holds c as its callee and differs from the frame in nothing else.
C27_ResolveCalleeOutcomes ==
    [][Step =>
          \A i \in 1..Len(rlog') :
              LET f == rlog'[i].frame
                  c == rlog'[i].result.v
                  direct == c.fn.operative \/ numArgs(frames'[f].syntaxNode) = 0
              IN  (/\ frames'[f].kind = "CallExprSyntaxFrame"
                   /\ frames'[f].state = "Callee"
                   /\ rlog'[i].result.k = "Value"
                   /\ ~failed')
                      => IF c.t # "funcobj"
                         THEN /\ i < Len(rlog')
                              /\ rlog'[i + 1] =
                                    [frame |-> frames'[f].parent,
                                     result |-> EvalExc(f, "Callee expression is not callable", c)]
                         ELSE /\ i = Len(rlog')
                              /\ status' = "running"
                              /\ top' \in FreshFrames
                              /\ frames'[top'] =
                                    [frames'[f] EXCEPT
                                        !.callee = c,
                                        !.state = IF direct THEN "Invoke" ELSE "Arg",
                                        !.no = 0,
                                        !.operands = <<>>,
                                        !.hasOperands = FALSE]]_vars

\* The callee of a call evaluated to undefined (the name handler of the
\* host returns it): the CallExprSyntaxFrame raised the Exc with undefined
\* as its argument.
C27_Witness ==
    \E i \in 1..Len(rlog) :
        /\ frames[rlog[i].frame].kind = "CallExprSyntaxFrame"
        /\ frames[rlog[i].frame].state = "Callee"
        /\ rlog[i].result = EvalValue(Undefined)
        /\ i < Len(rlog)
        /\ rlog[i + 1].result.msg = "Callee expression is not callable"
        /\ rlog[i + 1].result.arg = Undefined
        /\ rlog[i + 1].result.frame = rlog[i].frame

\* The callee of the frame fr is an operative.
OperativeCallee(fr) == fr.callee.t = "funcobj" /\ fr.callee.fn.operative

\* The argument nodes of a call node, in source order.
RawArguments(node) == [i \in 1..numArgs(node) |-> arg(node, i - 1)]

\* C28: a CallExprSyntaxFrame whose callee is an operative is in state
\* Invoke and has no operands, no frame of its call is in state Arg, and
\* it has no sub-evaluation of its own; the InvokeOperativeFrame invokes
\* the operative with the argument nodes of the call, one per argument, in
\* source order (a failed allocation aside).
C28_OperativeGetsRawArguments ==
    /\ [](\A f \in FramesOf(frames, "CallExprSyntaxFrame") :
              OperativeCallee(frames[f]) =>
                  /\ frames[f].state = "Invoke"
                  /\ ~frames[f].hasOperands
                  /\ frames[f].operands = <<>>
                  /\ EvalsOf(frames, f) = {}
                  /\ \A x \in SameRun(frames, f) : frames[x].state # "Arg")
    /\ [][(StepInvokeOperativeFrame /\ ~failed') =>
              /\ OperativeCallee(frames[top])
              /\ calls' # <<>>
              /\ calls'[1] = [impl |-> frames[top].callee.fn.impl,
                              frame |-> top,
                              args |-> RawArguments(frames[top].syntaxNode)]]_vars

\* `@IntegerExpr(1, 2)`: the handler of integer literals was called as an
\* operative with the two argument nodes, and refused them.
C28_Witness ==
    /\ RootNode = 97
    /\ Len(calls) = 1
    /\ calls[1].impl = "Lift_IntegerExpr"
    /\ calls[1].args = <<101, 102>>
    /\ frames[calls[1].frame].kind = "InvokeOperativeFrame"
    /\ rlog # <<>>
    /\ rlog[1].result.k = "Exc"
    /\ \A f \in FramesOf(frames, "InvokeSyntaxNodeFrame") : frames[f].syntaxNode \notin {101, 102}

\* The value of argument i of the call node, the argument being a number
\* (an argument that is a name has the value its handler finds).
ArgumentValue(node, i) == Integer(intValue(arg(node, i)))

\* The CallExprSyntaxFrame f in state Arg is the only frame of its call for
\* its argument, it evaluates that argument at most once, it holds one
\* operand per argument before, and the frame for the argument before was
\* allocated earlier and has evaluated its argument.
ArgumentsInOrder(fs, f) ==
    LET fr == fs[f]
        args == {x \in SameRun(fs, f) : fs[x].state = "Arg"}
    IN  /\ fr.no < numArgs(fr.syntaxNode)
        /\ Len(fr.operands) = fr.no
        /\ Cardinality(EvalsOf(fs, f)) <= 1
        /\ \A c \in EvalsOf(fs, f) : fs[c].syntaxNode = arg(fr.syntaxNode, fr.no)
        /\ \A x \in args : fs[x].no = fr.no => x = f
        /\ fr.no > 0 => \E x \in args : x < f /\ fs[x].no = fr.no - 1 /\ EvalsOf(fs, x) # {}

\* C29: the arguments of a call of an applicative are evaluated from left
\* to right, each at most once and all of them before the invocation; the
\* operand list of the InvokeApplicativeFrame holds their values, the last
\* one first, and the invocation binds parameter i of the callee to operand
\* n - i of the list, the value of argument i: the argument array has
\* length n and is in source order.
C29_ArgumentsInSourceOrder ==
    /\ [](\A f \in FramesOf(frames, "CallExprSyntaxFrame") :
              frames[f].state = "Arg" => ArgumentsInOrder(frames, f))
    /\ [](\A f \in FramesOf(frames, "InvokeApplicativeFrame") :
              frames[f].hasOperands =>
                  LET node == frames[frames[f].parent].syntaxNode
                      n == numArgs(node)
                  IN  /\ n >= 1
                      /\ Len(frames[f].operands) = n
                      /\ \A i \in 0..(n - 1) :
                            /\ nodeType(arg(node, i)) = "IntegerExpr" =>
                                  frames[f].operands[n - i] = ArgumentValue(node, i)
                            /\ \E x \in SameRun(frames, frames[f].parent) :
                                  /\ frames[x].state = "Arg"
                                  /\ frames[x].no = i
                                  /\ Cardinality(EvalsOf(frames, x)) = 1)
    /\ [][(StepInvokeApplicativeFrame /\ frames[top].hasOperands /\ status' = "running") =>
              LET n == Len(frames[top].operands)
                  defNode == frames[top].callee.fn.node
                  callScope == Len(scopes')
              IN  /\ callScope = Len(scopes) + 1
                  /\ numParams(defNode) = n
                  /\ \A i \in 0..(n - 1) :
                        scopes'[callScope].dict[paramName(defNode, i)]
                            = MakeSlot(frames[top].operands[n - i], TRUE)]_vars

\* `g(4, 5)` has been invoked: the operand list was (5, 4), and the call
\* scope of the EntryFrame on top binds a to 4 and b to 5.
C29_Witness ==
    /\ RootNode = 49
    /\ status = "running"
    /\ frames[top].kind = "EntryFrame"
    /\ frames[frames[top].parent].kind = "InvokeApplicativeFrame"
    /\ frames[frames[top].parent].operands = <<Integer(5), Integer(4)>>
    /\ scopes[frames[top].scope].dict["a"] = MakeSlot(Integer(4), TRUE)
    /\ scopes[frames[top].scope].dict["b"] = MakeSlot(Integer(5), TRUE)

\* C30: a step of an InvokeApplicativeFrame made for a call without
\* arguments does not crash: it is the invocation of the callee with an
\* empty argument array, forwarded to the parent, and it ends in Error only
\* when an allocation of the invocation fails.
C30_EmptyOperandsInvoke ==
    [][(StepInvokeApplicativeFrame /\ ~frames[top].hasOperands) =>
          /\ frames[top].operands = <<>>
          /\ numArgs(frames[frames[top].parent].syntaxNode) = 0
          /\ status' # "crashed"
          /\ (status' = "halted" => failed')
          /\ \E fail \in 0..MaxAllocSite :
                LET m == Machine(fail, "benign")
                    callerScope == frames[ancestorEntryFrame(frames, top)].scope
                    i == InvokeApplicativeFunction(m, top, callerScope, frames[top].callee, <<>>)
                IN  Trampoline(Run(ForwardCallResult(i, frames[top].parent)))]_vars

\* ------------------------------------------------------------------------
\* Applicative invocation: arity and the call scope
\* ------------------------------------------------------------------------

\* The step of the InvokeApplicativeFrame on top invokes a scripted function
\* whose number of parameters differs from the number of operands.
ArityMismatch ==
    /\ StepInvokeApplicativeFrame
    /\ ~frames[top].callee.fn.native
    /\ numParams(frames[top].callee.fn.node) # Len(frames[top].operands)

\* C31: an invocation of a scripted applicative with a number of arguments
\* other than its number of parameters raises the exception "Arguments do
\* not match params." to the parent of the invoke frame and does nothing
\* else: no scope is created, no property of a scope changes, no frame is
\* created (the body is not entered) and no native is called.
C31_ArityMismatchRaises ==
    [][(ArityMismatch /\ status' # "crashed") =>
          /\ rlog' # <<>>
          /\ rlog'[1] = [frame |-> frames[top].parent,
                         result |-> EvalExc(top, "Arguments do not match params.", Undefined)]
          /\ scopes' = scopes
          /\ Len(frames') = Len(frames)
          /\ \A f \in 1..Len(frames) : frames[f].kind # "TerminalFrame" => frames'[f] = frames[f]
          /\ calls' = <<>>
          /\ ~failed']_vars

\* `k(4, 5)` with `def k(a) { a }`: the invocation with two operands has
\* raised the exception and the run is done with the global scope alone.
C31_Witness ==
    /\ RootNode = 106
    /\ status = "done"
    /\ frames[top].result.k = "Exc"
    /\ frames[top].result.msg = "Arguments do not match params."
    /\ Len(scopes) = 1
    /\ \E f \in FramesOf(frames, "InvokeApplicativeFrame") :
          /\ Len(frames[f].operands) = 2
          /\ rlog[1].frame = frames[f].parent

\* The call scope made by the invocation step, and the frame it enters.
CallScopeOf(parentScope) ==
    LET fr == frames[top]
        n == Len(fr.operands)
        defNode == fr.callee.fn.node
        callScope == Len(scopes')
    IN  /\ callScope = Len(scopes) + 1
        /\ scopes'[callScope].delegate = parentScope
        /\ \A i \in 0..(n - 1) :
              scopes'[callScope].dict[paramName(defNode, i)]
                  = MakeSlot(fr.operands[n - i], TRUE)
        /\ \A s \in 1..Len(scopes) : scopes'[s] = scopes[s]
        /\ top' = Len(frames')
        /\ frames'[top'] = EntryFrame(top, defNode, callScope)

\* C32: an invocation of a scripted applicative that enters the body has
\* made one fresh scope whose parent is the scope captured by the callee,
\* has bound parameter i to argument i on it, and has made an EntryFrame
\* over the definition and that scope the top frame.
C32_CallScopeUnderCapturedScope ==
    [][(StepInvokeApplicativeFrame /\ status' = "running") =>
          CallScopeOf(frames[top].callee.fn.scope)]_vars

\* ------------------------------------------------------------------------
\* Dot expressions
\* ------------------------------------------------------------------------

\* The property "@Dot" of a target value, as the scopes of the step's start
\* have it; only objects carry properties.
DotOf(value) ==
    IF value.t = "obj" THEN LookupProperty(scopes, value.n, "@Dot") ELSE NoDesc

EntriesOf(fs, f) == {c \in FramesOf(fs, "EntryFrame") : fs[c].parent = f}

HandlerResult ==
    LET fr == frames[top]
        name == syntaxHandlerName(fr.syntaxNode)
        g == GetObjectProperty(Machine(0, "benign"), Object(TopScope), name)
    IN  IF name = "" \/ g.r.k # "Found" THEN EvalError
        ELSE InvokeOperativeValue(g.m, top, TopScope, g.r.v, <<fr.syntaxNode>>).cr

\* C35: the step of an InvokeSyntaxNodeFrame whose handler hands back Void
\* resolves the parent of the frame with Void; it does not end in Error.
C35_VoidResolvesParent ==
    [][(StepInvokeSyntaxNodeFrame /\ ~failed' /\ HandlerResult.k = "Void") =>
          /\ status' \notin {"halted", "crashed"}
          /\ rlog' # <<>>
          /\ rlog'[1] = [frame |-> frames[top].parent, result |-> EvalVoid]]_vars

\* C36: the step of a BlockSyntaxFrame over a block without statements
\* resolves the parent of the frame with undefined, as the step of a
\* FileSyntaxFrame past the last statement does, and makes no frame to
\* evaluate a statement.
C36_EmptyBlockYieldsUndefined ==
    [][(StepBlockSyntaxFrame /\ numStatements(frames[top].syntaxNode) = 0) =>
          /\ status' # "crashed"
          /\ rlog' # <<>>
          /\ rlog'[1] = [frame |-> frames[top].parent, result |-> UndefinedValue]
          /\ Len(frames') = Len(frames)]_vars

\* The invoke frames made for the call of frame f.
InvokesOf(fs, f) ==
    {x \in FramesOf(fs, "InvokeApplicativeFrame") \cup FramesOf(fs, "InvokeOperativeFrame") :
        fs[x].parent \in SameRun(fs, f)}

\* C37: an Error or an Exc delivered to a CallExprSyntaxFrame that waits
\* for its callee or for argument k goes to the parent of the frame as it
\* is; the frame is the latest one of its call, so no later argument has
\* been evaluated and the callee has not been invoked, and after the step
\* no frame of the call is live or new, so neither can happen later.
C37_FailedOperandEndsCall ==
    [][Step =>
          \A j \in 1..Len(rlog') :
              LET f == rlog'[j].frame
              IN  (/\ frames'[f].kind = "CallExprSyntaxFrame"
                   /\ frames'[f].state \in {"Callee", "Arg"}
                   /\ rlog'[j].result.k \in {"Error", "Exc"}) =>
                      /\ j < Len(rlog')
                      /\ rlog'[j + 1] = [frame |-> frames'[f].parent,
                                         result |-> rlog'[j].result]
                      /\ \A x \in SameRun(frames', f) :
                            /\ x <= f
                            /\ frames'[x].state # "Invoke"
                            /\ frames'[x].state = "Arg" => frames'[x].no <= frames'[f].no
                      /\ InvokesOf(frames', f) = {}
                      /\ \A c \in 1..Len(calls') : calls'[c].frame \notin SameRun(frames', f)
                      /\ SameRun(frames', f) \cap LiveFramesNext = {}
                      /\ \A x \in FreshFrames :
                            /\ x \notin SameRun(frames', f)
                            /\ frames'[x].parent \notin SameRun(frames', f)]_vars

\* `g(y, 5)` with y not bound: the exception of argument 0 was delivered to
\* the frame of the call and went on to its parent; the 5 has no frame.
C37_Witness ==
    /\ RootNode = 133
    /\ \E j \in 1..(Len(rlog) - 1) :
          /\ frames[rlog[j].frame].kind = "CallExprSyntaxFrame"
          /\ frames[rlog[j].frame].state = "Arg"
          /\ frames[rlog[j].frame].no = 0
          /\ rlog[j].result.k = "Exc"
          /\ rlog[j + 1] = [frame |-> frames[rlog[j].frame].parent, result |-> rlog[j].result]
    /\ \A x \in 1..Len(frames) : frames[x].syntaxNode # 138

\* ------------------------------------------------------------------------
\* The shape of the frame spine
\* ------------------------------------------------------------------------

\* The frame kinds whose Resolve makes a successor frame.
SuccessorKinds ==
    {"FileSyntaxFrame", "BlockSyntaxFrame", "VarSyntaxFrame", "CallExprSyntaxFrame"}

\* Frame c under frame p goes one level down the syntax, or not at all: it
\* is over the node of p or over a sub-node of it, or p is an invoke frame
\* or the terminal frame (no node), or c is an invoke frame, or c enters
\* the body of a function.  A block frame past the end of its block reads
\* outside its block: what it evaluates is not a sub-node of anything.
NestsUnder(fs, c, p) ==
    \/ fs[p].kind = "BlockSyntaxFrame" /\ fs[p].no >= numStatements(fs[p].syntaxNode)
    \/ fs[p].syntaxNode = 0
    \/ fs[c].syntaxNode = 0
    \/ fs[c].syntaxNode = fs[p].syntaxNode
    \/ \E i \in 1..Len(Tree[fs[p].syntaxNode].kids) :
          Tree[fs[p].syntaxNode].kids[i] = fs[c].syntaxNode
    \/ fs[c].kind = "EntryFrame" /\ nodeType(fs[c].syntaxNode) = "DefStmt"

\* C38: a frame made by the Resolve of a file, block, var or call frame
\* has the kind, parent, entry frame and syntax node of the frame that was
\* resolved; a frame made by a step that resolves nobody has the stepping
\* frame as parent; so the spine never holds two frames of one statement
\* list, var statement or call, every frame of it is over the node of its
\* parent or one level below, and it holds at most five frames per node.
C38_SpineFollowsNesting ==
    /\ [][(Step /\ rlog' # <<>> /\ status' = "running" /\ top' \in FreshFrames) =>
              LET f == rlog'[Len(rlog')].frame
              IN  /\ frames[f].kind \in SuccessorKinds \cup {"InvokeSyntaxNodeFrame"}
                  /\ frames[f].kind \in SuccessorKinds =>
                        /\ frames'[top'].kind = frames[f].kind
                        /\ frames'[top'].parent = frames[f].parent
                        /\ frames'[top'].entryFrame = frames[f].entryFrame
                        /\ frames'[top'].syntaxNode = frames[f].syntaxNode
                        /\ f \notin LiveFramesNext
                  /\ frames[f].kind = "InvokeSyntaxNodeFrame" =>
                        frames'[top'].parent = f]_vars
    /\ [][(Step /\ rlog' = <<>>) =>
              \A x \in FreshFrames : frames'[x].parent = top]_vars
    /\ [](\A f \in LiveFrames :
              /\ SameRun(frames, f) \cap LiveFrames = {f}
              /\ frames[f].parent # 0 => NestsUnder(frames, f, frames[f].parent))
    /\ [](Len(TopSpine) <= 5 * Cardinality({frames[f].syntaxNode : f \in LiveFrames}))

\* In `var a, b = 2, c; const k = 5; (b)` the frame of the third statement
\* is the top frame: its two predecessors are off the spine, and it hangs
\* under the frame the first one hung under.
C38_Witness ==
    /\ RootNode = 34
    /\ frames[top].kind = "FileSyntaxFrame"
    /\ frames[top].no = 2
    /\ Cardinality(SameRun(frames, top)) = 3
    /\ SameRun(frames, top) \cap LiveFrames = {top}
    /\ \A x \in SameRun(frames, top) : frames[x].parent = frames[top].parent

\* ------------------------------------------------------------------------
\* Termination of a run with the default handlers
\* ------------------------------------------------------------------------

\* A run in which the embedder rebinds nothing: the trampoline alone.
NextRun == Step

\* The loop of the trampoline goes on for as long as the run is running:
\* it takes a step, and a step changes the top frame or ends the run.
Advance ==
    /\ status = "running"
    /\ top' \in 1..(Len(frames) + 1)
    /\ status' \in {"running", "done", "halted", "crashed"}

\* Every step of the trampoline is such a step.
StepAdvances ==
    [][Step => Advance /\ <<top, status>>' # <<top, status>>]_vars

SpecRun == Init /\ [][NextRun]_vars /\ WF_<<top, status>>(Advance)

MaxAmountWords == 2

\* The requests the assertion IsIntAligned(amount, AllocAlign) accepts.
Amounts == {w * AllocAlign : w \in 0..MaxAmountWords}

\* Slab::allocateHead
Slab_allocateHead(s, amount) ==
    LET oldTop == s.headAlloc_
        newTop == oldTop + amount
    IN  IF newTop > s.allocBottom_
        THEN [slab |-> s, ptr |-> nullptr]
        ELSE [slab |-> [s EXCEPT !.headAlloc_ = newTop], ptr |-> oldTop]

\* Slab::allocateTail
Slab_allocateTail(s, amount) ==
    LET newBot == s.tailAlloc_ - amount
    IN  IF newBot < s.allocTop_
        THEN [slab |-> s, ptr |-> nullptr]
        ELSE [slab |-> [s EXCEPT !.tailAlloc_ = newBot], ptr |-> newBot]

\* The blocks handed out once a call returned ptr for a request of amount.
HandedOut(ptr, amount) ==
    IF ptr = nullptr THEN blocks ELSE blocks \cup {[lo |-> ptr, size |-> amount]}

\* slab->allocateHead(amount)
allocateHead ==
    \E amount \in Amounts :
        LET r == Slab_allocateHead(slab, amount)
        IN  /\ slab' = r.slab
            /\ ret' = [op |-> "allocateHead", amount |-> amount, ptr |-> r.ptr]
            /\ blocks' = HandedOut(r.ptr, amount)
            /\ UNCHANGED <<heap, hroot, hlocal, dirty, valvars>>
            /\ UNCHANGED <<frames, scopes, top, status, rlog, calls, failed, native, flow>>

\* slab->allocateTail(amount)
allocateTail ==
    \E amount \in Amounts :
        LET r == Slab_allocateTail(slab, amount)
        IN  /\ slab' = r.slab
            /\ ret' = [op |-> "allocateTail", amount |-> amount, ptr |-> r.ptr]
            /\ blocks' = HandedOut(r.ptr, amount)
            /\ UNCHANGED <<heap, hroot, hlocal, dirty, valvars>>
            /\ UNCHANGED <<frames, scopes, top, status, rlog, calls, failed, native, flow>>

NextSlab == allocateHead \/ allocateTail

SpecSlab == InitGC /\ [][NextSlab]_vars

\* The bytes free between the two allocation pointers.
FreeSpace(s) == s.tailAlloc_ - s.headAlloc_

\* Block b lies inside the data region of slab s.
InDataRegion(s, b) == headStartAlloc(s) <= b.lo /\ b.lo + b.size <= tailStartAlloc(s)

\* Blocks a and b share no byte.
Disjoint(a, b) == a.lo + a.size <= b.lo \/ b.lo + b.size <= a.lo

\* C40: after any sequence of allocateHead and allocateTail calls on one
\* slab the head pointer is not above the tail pointer, every block handed
\* out lies inside the data region and no two blocks overlap; and a request
\* larger than the space free between the two pointers returns null and
\* leaves both pointers where they were.
C40_HeadAndTailNeverCross ==
    /\ [](/\ slab.headAlloc_ <= slab.tailAlloc_
          /\ \A b \in blocks : InDataRegion(slab, b)
          /\ \A a, b \in blocks : a # b => Disjoint(a, b))
    /\ [][ret'.amount > FreeSpace(slab) => ret'.ptr = nullptr /\ slab' = slab]_vars

====
